---- MODULE Spec2Model ----
(***************************************************************************)
(* Model of the channel package of brite-validation: the operation chains  *)
(* (BaseChain and its Create / Read / Update / Delete variants), the rate   *)
(* limiter kept in the shared NodeCache, and the schema matcher.            *)
(*                                                                          *)
(* Time is counted in whole clock units; a rate-limit window of w seconds   *)
(* is w units.  One call of a synchronous method reads the clock once.      *)
(***************************************************************************)
EXTENDS Integers, Sequences, FiniteSets, TLC

\* ------------------------------------------------------------------ bounds
\* Clock values reached, windows and maxima of the rate-limit policies tried,
\* escalation counts reached and chains in flight at once (SpecRL); clock
\* values reached when whole requests are followed (Spec).
MaxTime == 4
MaxWindow == 2
MaxMax == 2
MaxRetry == 4
NumChains == 2
MaxClock == 2
\* calls of predicate and of the public checks a caller makes on one chain
\* (Spec, SpecData)
MaxCalls == 1

\* ------------------------------------------------------------------ values
\* JavaScript values carried by filters, documents and updates.  "0" stands
\* for the number 0 (falsy), "123" for a non-zero number, the others for
\* strings; "*current_user*" is the sentinel of setCurrentUser.
Keys == {"name", "role", "sort"}
StringVals == {"bob", "admin", "*current_user*"}

Truthy(v) == v # "0"
IsString(v) == v \in StringVals

EmptyObj == [k \in {} |-> "0"]
Has(obj, k) == k \in DOMAIN obj
\* delete obj[key]
DeleteKey(obj, k) == [x \in (DOMAIN obj) \ {k} |-> obj[x]]
\* lodash isEmpty on a plain object
isEmpty(obj) == DOMAIN obj = {}

\* ------------------------------------------------------------------ errors
\* The errors variable of the schema matcher: undefined, or a validator's list.
NoErrors == [defined |-> FALSE, list |-> <<>>]
Errors(list) == [defined |-> TRUE, list |-> list]

\* new StatusError(status, title, message, detail); NoError: nothing thrown.
NoError == [status |-> 0, title |-> "none", detail |-> NoErrors]
StatusErrorWith(status, title, detail) == [status |-> status, title |-> title, detail |-> detail]
StatusError(status, title) == StatusErrorWith(status, title, NoErrors)
\* new Error(message): an error that is no StatusError and carries no status
\* (status -1 stands for the property being absent).
PlainError == [status |-> -1, title |-> "Error", detail |-> NoErrors]
Failed(e) == e.status # 0

\* ------------------------------------------------------------------ NodeCache
\* The two entries the limiter keeps for one (path, address) pair.
CacheKeys == {"key", "retryKey"}
NoRetry == [retry |-> 0, count |-> 0]
Absent(k) == [live |-> FALSE, val |-> IF k = "key" THEN 0 ELSE NoRetry, t |-> 0]
EmptyCache == [k \in CacheKeys |-> Absent(k)]

\* An entry is expired when its livetime t is not 0 and lies before the clock.
CacheHas(c, k, clock) == c[k].live /\ (c[k].t = 0 \/ c[k].t >= clock)
CacheGet(c, k) == c[k].val
CacheGetTtl(c, k) == c[k].t
\* set(key, value, ttl): a ttl of 0 stores the livetime 0, which never expires.
CacheSet(c, k, v, ttl, clock) ==
  [c EXCEPT ![k] = [live |-> TRUE, val |-> v, t |-> IF ttl = 0 THEN 0 ELSE clock + ttl]]
CacheDel(c, k) == [c EXCEPT ![k] = Absent(k)]
\* The periodic sweep (and the lazy delete in has/get) drops expired entries.
CachePurge(c, clock) == [k \in CacheKeys |-> IF CacheHas(c, k, clock) THEN c[k] ELSE Absent(k)]

\* ------------------------------------------------------------------ rate limiter
TooManyRequests == StatusError(429, "Too Many Request")

\* (as exhausted, but an escalation re-sets the primary entry for one window)
exhausted_FlatWindow(c, clock, windows, max) ==
  IF CacheHas(c, "retryKey", clock)
  THEN LET retry == CacheGet(c, "retryKey") IN
       IF retry.count = 0
       THEN LET r2 == [retry |-> retry.retry + 1, count |-> 2 * max - 1]
                c1 == CacheSet(c, "retryKey", r2, windows, clock)
            IN [cache |-> CacheSet(c1, "key", 0, windows, clock), err |-> TooManyRequests]
       ELSE [cache |-> CacheSet(c, "retryKey", [retry EXCEPT !.count = @ - 1], windows, clock),
             err |-> TooManyRequests]
  ELSE [cache |-> CacheSet(c, "retryKey", [retry |-> 1, count |-> max * 2 - 1], windows, clock),
        err |-> TooManyRequests]

\* (an escalation that re-sets the primary counter to the full count)
exhausted_Refill(c, clock, windows, max) ==
  IF CacheHas(c, "retryKey", clock)
  THEN LET retry == CacheGet(c, "retryKey") IN
       IF retry.count = 0
       THEN LET r2 == [retry |-> retry.retry + 1, count |-> 2 * max - 1]
                c1 == CacheSet(c, "retryKey", r2, windows, clock)
            IN [cache |-> CacheSet(c1, "key", max, windows * r2.retry, clock), err |-> TooManyRequests]
       ELSE [cache |-> CacheSet(c, "retryKey", [retry EXCEPT !.count = @ - 1], windows, clock),
             err |-> TooManyRequests]
  ELSE [cache |-> CacheSet(c, "retryKey", [retry |-> 1, count |-> max * 2 - 1], windows, clock),
        err |-> TooManyRequests]

\* The branch of checkRateLimit taken when the primary counter is 0: the
\* penalty entry is created, decremented or escalated, and the call throws 429.
exhausted(c, clock, windows, max) ==
  IF CacheHas(c, "retryKey", clock)
  THEN LET retry == CacheGet(c, "retryKey") IN
       IF retry.count = 0
       THEN LET r2 == [retry |-> retry.retry + 1, count |-> 2 * max - 1]
                c1 == CacheSet(c, "retryKey", r2, windows, clock)
            IN [cache |-> CacheSet(c1, "key", 0, windows * r2.retry, clock), err |-> TooManyRequests]
       ELSE [cache |-> CacheSet(c, "retryKey", [retry EXCEPT !.count = @ - 1], windows, clock),
             err |-> TooManyRequests]
  ELSE \* user has tried suspiciously
       [cache |-> CacheSet(c, "retryKey", [retry |-> 1, count |-> max * 2 - 1], windows, clock),
        err |-> TooManyRequests]

\* (as checkRateLimit, but a fresh window leaves the penalty entry in place)
checkRateLimit_KeepPenalty(c, clock, windows, max, hasIp, hasCache) ==
  IF ~hasIp \/ ~hasCache THEN [cache |-> c, err |-> NoError]
  ELSE IF CacheHas(c, "key", clock)
       THEN LET count == CacheGet(c, "key") IN
            IF count = 0 THEN exhausted(c, clock, windows, max)
            ELSE [cache |-> CacheSet(c, "key", count - 1, CacheGetTtl(c, "key") - clock, clock), err |-> NoError]
       ELSE [cache |-> CacheSet(c, "key", max - 1, windows, clock), err |-> NoError]

\* (as checkRateLimit, but a fresh window starts with the full count)
checkRateLimit_FullFirst(c, clock, windows, max, hasIp, hasCache) ==
  IF ~hasIp \/ ~hasCache THEN [cache |-> c, err |-> NoError]
  ELSE IF CacheHas(c, "key", clock)
       THEN LET count == CacheGet(c, "key") IN
            IF count = 0 THEN exhausted(c, clock, windows, max)
            ELSE [cache |-> CacheSet(c, "key", count - 1, CacheGetTtl(c, "key") - clock, clock), err |-> NoError]
       ELSE LET c1 == IF CacheHas(c, "retryKey", clock) THEN CacheDel(c, "retryKey") ELSE c
            IN [cache |-> CacheSet(c1, "key", max, windows, clock), err |-> NoError]

\* BaseChain.checkRateLimit(windows, max) on the cache c at clock; hasIp and
\* hasCache say whether this.ip and this.cache are set.  The result is the
\* cache after the call and the error thrown (NoError: the call returned).
checkRateLimit(c, clock, windows, max, hasIp, hasCache) ==
  IF ~hasIp \/ ~hasCache THEN [cache |-> c, err |-> NoError]
  ELSE IF CacheHas(c, "key", clock)
       THEN LET count == CacheGet(c, "key") IN
            IF count = 0 THEN exhausted(c, clock, windows, max)
            ELSE LET ttl == CacheGetTtl(c, "key")
                     newTtl == ttl - clock
                 IN [cache |-> CacheSet(c, "key", count - 1, newTtl, clock), err |-> NoError]
       ELSE LET c1 == IF CacheHas(c, "retryKey", clock) THEN CacheDel(c, "retryKey") ELSE c
            IN [cache |-> CacheSet(c1, "key", max - 1, windows, clock), err |-> NoError]

\* ------------------------------------------------------------------ authorization
UserTypes == {"Visitor", "Customer"}
Visitor == "Visitor"

\* constructAction(base, prefix, field, prefixAction): the composed action
\* string, kept as the tuple of its parts ("" for a part that is left out).
constructAction(base, prefix, field, prefixAction) == <<prefix, base, field, prefixAction>>
\* validateAction(action, actions): membership in the granted set.
validateAction(action, granted) ==
  IF action \in granted THEN NoError ELSE StatusError(403, "Permission Denied")

\* (a visitorVisit that answers a visitor with the authorization-class status)
visitorVisit_Forbidden(utype, canVisit) ==
  IF ~canVisit /\ utype = Visitor THEN StatusError(403, "Unauthorized") ELSE NoError

\* BaseChain.visitorVisit(canVisit)
visitorVisit(utype, canVisit) ==
  IF ~canVisit /\ utype = Visitor THEN StatusError(401, "Unauthorized") ELSE NoError

\* BaseChain.checkIfUserIs(users)
checkIfUserIs(utype, users) ==
  IF utype \notin users THEN StatusError(403, "Invalid Account") ELSE NoError

\* (a checkAction that composes every action with the Read prefix)
checkAction_ReadPrefix(argBase, thisBase, epBase, prefix, granted) ==
  LET base == IF argBase # "" THEN argBase ELSE IF thisBase # "" THEN thisBase ELSE epBase
      newBase == IF thisBase # "" THEN thisBase ELSE base
  IN IF base = "" THEN [err |-> PlainError, baseAction |-> newBase]
     ELSE [err |-> validateAction(constructAction(base, "Read", "", ""), granted), baseAction |-> newBase]

\* BaseChain.checkAction(baseAction): the error thrown and this.baseAction after.
checkAction(argBase, thisBase, epBase, prefix, granted) ==
  LET base == IF argBase # "" THEN argBase ELSE IF thisBase # "" THEN thisBase ELSE epBase
      newBase == IF thisBase # "" THEN thisBase ELSE base
  IN IF base = "" THEN [err |-> PlainError, baseAction |-> newBase]
     ELSE [err |-> validateAction(constructAction(base, prefix, "", ""), granted), baseAction |-> newBase]

\* ------------------------------------------------------------------ denied keys
capitalize(key) == CASE key = "name" -> "Name" [] key = "role" -> "Role" [] key = "sort" -> "Sort" [] OTHER -> key

\* BaseChain._checkIfKeysExist(obj, keys, prefixAction, shouldDelete): the
\* object after the loop and the error thrown by validateAction, if any.
\* base is this.baseAction || this.endpoint.baseAction.
RECURSIVE _checkIfKeysExist(_, _, _, _, _, _, _)
_checkIfKeysExist(obj, keys, prefixAction, shouldDelete, base, prefix, granted) ==
  IF keys = <<>> THEN [obj |-> obj, err |-> NoError]
  ELSE LET key == Head(keys) IN
       IF Has(obj, key) /\ Truthy(obj[key])
       THEN IF shouldDelete
            THEN _checkIfKeysExist(DeleteKey(obj, key), Tail(keys), prefixAction, shouldDelete, base, prefix, granted)
            ELSE LET e == validateAction(constructAction(base, prefix, capitalize(key), prefixAction), granted) IN
                 IF Failed(e) THEN [obj |-> obj, err |-> e]
                 ELSE _checkIfKeysExist(obj, Tail(keys), prefixAction, shouldDelete, base, prefix, granted)
       ELSE _checkIfKeysExist(obj, Tail(keys), prefixAction, shouldDelete, base, prefix, granted)

\* BaseChain._checkIfKeysValueExist(obj, record, prefixAction, shouldDelete);
\* record is the sequence of its entries [key, values] in Object.keys order,
\* values being the one string or the strings of the array.
RECURSIVE _checkIfKeysValueExist(_, _, _, _, _, _, _)
_checkIfKeysValueExist(obj, record, prefixAction, shouldDelete, base, prefix, granted) ==
  IF record = <<>> THEN [obj |-> obj, err |-> NoError]
  ELSE LET key == Head(record).key
           match == Has(obj, key) /\ Truthy(obj[key]) /\ obj[key] \in Head(record).values
       IN IF match
          THEN IF shouldDelete
               THEN _checkIfKeysValueExist(DeleteKey(obj, key), Tail(record), prefixAction, shouldDelete, base, prefix, granted)
               ELSE LET e == validateAction(constructAction(base, prefix, capitalize(key), prefixAction), granted) IN
                    IF Failed(e) THEN [obj |-> obj, err |-> e]
                    ELSE _checkIfKeysValueExist(obj, Tail(record), prefixAction, shouldDelete, base, prefix, granted)
          ELSE _checkIfKeysValueExist(obj, Tail(record), prefixAction, shouldDelete, base, prefix, granted)

\* ------------------------------------------------------------------ defaults
\* A default payload or options value: undefined, one object, or an array.
Undefined == [tag |-> "undefined", obj |-> EmptyObj, items |-> <<>>]
Obj(o) == [tag |-> "obj", obj |-> o, items |-> <<>>]
Arr(items) == [tag |-> "seq", obj |-> EmptyObj, items |-> items]
IsDefined(d) == d.tag # "undefined"

\* getDefault(obj, index): index counts from 0.
getDefault(d, index) ==
  IF d.tag = "seq"
  THEN IF index + 1 \in DOMAIN d.items THEN d.items[index + 1] ELSE Undefined
  ELSE d

\* this.user._id, raw or as a string
UserId(stringify) == IF stringify THEN "uid-string" ELSE "uid-object"

\* BaseChain.setCurrentUser on one object: a copy in which every value equal
\* to the sentinel is the user's id.
setCurrentUserObj(o, stringify) ==
  [k \in DOMAIN o |-> IF o[k] = "*current_user*" THEN UserId(stringify) ELSE o[k]]

RECURSIVE setCurrentUser(_, _)
setCurrentUser(d, stringify) ==
  CASE d.tag = "obj" -> Obj(setCurrentUserObj(d.obj, stringify))
    [] d.tag = "seq" -> Arr([i \in DOMAIN d.items |-> setCurrentUser(d.items[i], stringify)])
    [] OTHER -> d

\* ------------------------------------------------------------------ schemas
\* A schema the compiler understands: required keys, keys whose value must
\* be a string, keys whose value must equal a constant; with the default and
\* options the endpoint declares on it.
SubSchema(required, strings, consts, default, options) ==
  [required |-> required, strings |-> strings, consts |-> consts, default |-> default, options |-> options]

\* ajv.compile(schema)(data): the errors of the validator, <<>> when valid.
Validate(schema, data) ==
  LET missing == {k \in schema.required : ~Has(data, k)}
      badType == {k \in schema.strings : Has(data, k) /\ ~IsString(data[k])}
      badConst == {k \in DOMAIN schema.consts : Has(data, k) /\ data[k] # schema.consts[k]}
  IN IF missing # {} THEN <<[keyword |-> "required", keys |-> missing]>>
     ELSE IF badType # {} THEN <<[keyword |-> "type", keys |-> badType]>>
     ELSE IF badConst # {} THEN <<[keyword |-> "const", keys |-> badConst]>>
     ELSE <<>>

NoSchema == [mode |-> "none", branches |-> <<>>]
Single(sub) == [mode |-> "single", branches |-> <<sub>>]
AnyOf(subs) == [mode |-> "anyOf", branches |-> subs]

\* setCurrentUser applied to a schema declaration (stringify = true).
setCurrentUserSchema(schema) ==
  [schema EXCEPT !.branches =
     [i \in DOMAIN @ |->
        [@[i] EXCEPT !.consts = setCurrentUserObj(@, TRUE),
                     !.default = setCurrentUser(@, TRUE),
                     !.options = setCurrentUser(@, TRUE)]]]

\* excludeFields(data): a copy without the sort and locale fields.
excludeFields(data) == [k \in (DOMAIN data) \ {"sort", "locale"} |-> data[k]]

\* (a findIndex that keeps looking and returns the last branch that accepts)
RECURSIVE findIndex_Last(_, _, _, _)
findIndex_Last(branches, data, i, errors) ==
  IF i > Len(branches) THEN [index |-> -1, errors |-> errors]
  ELSE LET res == Validate(branches[i], excludeFields(data))
           rest == findIndex_Last(branches, data, i + 1, IF res = <<>> THEN errors ELSE Errors(res))
       IN IF rest.index > -1 \/ res # <<>> THEN rest ELSE [index |-> i - 1, errors |-> errors]

\* (a findIndex whose callback keeps the errors of the first failing branch)
RECURSIVE findIndex_FirstErrors(_, _, _, _)
findIndex_FirstErrors(branches, data, i, errors) ==
  IF i > Len(branches) THEN [index |-> -1, errors |-> errors]
  ELSE LET res == Validate(branches[i], excludeFields(data)) IN
       IF res = <<>> THEN [index |-> i - 1, errors |-> errors]
       ELSE findIndex_FirstErrors(branches, data, i + 1, IF errors = NoErrors THEN Errors(res) ELSE errors)

\* findIndex over schema.anyOf: the state after trying branches i.. in order,
\* errors being the variable the callback assigns.
RECURSIVE findIndex(_, _, _, _)
findIndex(branches, data, i, errors) ==
  IF i > Len(branches) THEN [index |-> -1, errors |-> errors]
  ELSE LET res == Validate(branches[i], excludeFields(data)) IN
       IF res = <<>> THEN [index |-> i - 1, errors |-> errors]
       ELSE findIndex(branches, data, i + 1, Errors(res))

\* (a validateDataSchema that hands the fallback over whole, never indexed)
validateDataSchema_WholeFallback(data, schema, defaultData, defaultOpt) ==
  IF schema.mode = "anyOf"
  THEN LET f == findIndex(schema.branches, data, 1, NoErrors) IN
       IF f.index > -1
       THEN LET b == schema.branches[f.index + 1] IN
            [errors |-> f.errors,
             defaultValue |-> IF IsDefined(b.default) THEN b.default ELSE defaultData,
             defaultOption |-> IF IsDefined(b.options) THEN b.options ELSE defaultOpt,
             isValid |-> TRUE]
       ELSE [errors |-> f.errors, defaultValue |-> defaultData, defaultOption |-> defaultOpt, isValid |-> FALSE]
  ELSE LET b == schema.branches[1]
           res == Validate(b, excludeFields(data))
       IN IF res # <<>>
          THEN [errors |-> Errors(res), defaultValue |-> defaultData, defaultOption |-> defaultOpt, isValid |-> FALSE]
          ELSE [errors |-> NoErrors,
                defaultValue |-> IF IsDefined(b.default) THEN b.default ELSE defaultData,
                defaultOption |-> IF IsDefined(b.options) THEN b.options ELSE defaultOpt,
                isValid |-> TRUE]

\* validateDataSchema(data, schema, defaultData, defaultOpt)
validateDataSchema(data, schema, defaultData, defaultOpt) ==
  IF schema.mode = "anyOf"
  THEN LET f == findIndex(schema.branches, data, 1, NoErrors) IN
       IF f.index > -1
       THEN LET b == schema.branches[f.index + 1] IN
            [errors |-> f.errors,
             defaultValue |-> IF IsDefined(b.default) THEN b.default ELSE getDefault(defaultData, f.index),
             defaultOption |-> IF IsDefined(b.options) THEN b.options ELSE getDefault(defaultOpt, f.index),
             isValid |-> TRUE]
       ELSE [errors |-> f.errors, defaultValue |-> defaultData, defaultOption |-> defaultOpt, isValid |-> FALSE]
  ELSE LET b == schema.branches[1]
           res == Validate(b, excludeFields(data))
       IN IF res # <<>>
          THEN [errors |-> Errors(res), defaultValue |-> defaultData, defaultOption |-> defaultOpt, isValid |-> FALSE]
          ELSE [errors |-> NoErrors,
                defaultValue |-> IF IsDefined(b.default) THEN b.default ELSE defaultData,
                defaultOption |-> IF IsDefined(b.options) THEN b.options ELSE defaultOpt,
                isValid |-> TRUE]

\* ------------------------------------------------------------------ query composition
\* lodash merge({}, a, b) on flat objects: b's values win.
merge(a, b) == [k \in (DOMAIN a) \cup (DOMAIN b) |-> IF Has(b, k) THEN b[k] ELSE a[k]]

\* makeQuery(filter, defaultFilter, merge, isPrior): the default filter is
\* merged in only when the merge flag is set; isPrior lets the default win.
makeQuery(filter, defaultFilter, mergeFlag, isPrior) ==
  IF mergeFlag /\ defaultFilter.tag = "obj"
  THEN IF isPrior THEN merge(filter, defaultFilter.obj) ELSE merge(defaultFilter.obj, filter)
  ELSE filter

\* makeQueryOption(userOptions, defaultOptions): kept as the pair.
makeQueryOption(userOptions, defaultOptions) == [user |-> userOptions, default |-> defaultOptions]

\* parseNestedObject(filter): a key written with path syntax ("role.x") is
\* nested under its first segment, so the filter it returns carries the key
\* "role" with an object for value; the other keys are kept. Nested stands
\* for such an object: truthy, not a string, equal to no denied value.
parseNestedObject(filter) ==
  LET PathKeys == {"role.x"}
      Parent(k) == IF k = "role.x" THEN "role" ELSE k
      Nested == "[object]"
      paths == (DOMAIN filter) \cap PathKeys
      parents == {Parent(k) : k \in paths}
  IN [k \in ((DOMAIN filter) \ paths) \cup parents |-> IF k \in parents THEN Nested ELSE filter[k]]

\* ajv.compile(schema)(data) on a whole schema declaration, as UpdateChain
\* calls it: an anyOf declaration is valid when one branch is.
CompileValidate(schema, data) ==
  LET RECURSIVE branchErrors(_)
      branchErrors(i) ==
        IF i > Len(schema.branches) THEN <<>>
        ELSE Validate(schema.branches[i], data) \o branchErrors(i + 1)
  IN IF schema.mode = "anyOf"
     THEN IF \E i \in DOMAIN schema.branches : Validate(schema.branches[i], data) = <<>>
          THEN <<>>
          ELSE branchErrors(1) \o <<[keyword |-> "anyOf", keys |-> {}]>>
     ELSE Validate(schema.branches[1], data)

\* ------------------------------------------------------------------ chains
Kinds == {"Create", "Read", "Update", "Delete"}

NoGhost == [stripped |-> [filter |-> {}, body |-> {}],
            validated |-> [filter |-> Undefined, body |-> Undefined],
            merged |-> [filter |-> Undefined, body |-> Undefined],
            removed |-> [filter |-> {}, body |-> {}],
            checked |-> "undefined",
            caller |-> [filter |-> EmptyObj, body |-> EmptyObj],
            parsed |-> FALSE,
            cleared |-> FALSE]
NoResult == [present |-> FALSE]

\* what a call of perform holds across "await moveFieldsFile": the document or
\* update it cloned before, and the files the service is to answer with
NoHeld == [on |-> FALSE, doc |-> EmptyObj, files |-> EmptyObj]
Held(doc, files) == [on |-> TRUE, doc |-> doc, files |-> files]

\* A call of perform that began while an earlier call on the same chain was
\* still in flight: where it stands and what it has given so far.
NoSecond == [pc |-> "none", err |-> NoError, log |-> <<>>, result |-> NoResult, awaited |-> "undefined",
             checked |-> "undefined", validated |-> NoGhost.validated, merged |-> NoGhost.merged,
             held |-> NoHeld]

IdleChain ==
  [pc |-> "idle", utype |-> "none", argBase |-> "", hasCache |-> FALSE, hasIp |-> FALSE,
   baseAction |-> "", req |-> [filter |-> EmptyObj, body |-> EmptyObj],
   filter |-> EmptyObj, body |-> EmptyObj, callback |-> "undefined",
   err |-> NoError, log |-> <<>>, ghost |-> NoGhost, result |-> NoResult,
   built |-> FALSE, thrown |-> NoError, awaited |-> "undefined", held |-> NoHeld,
   calls |-> 0, second |-> NoSecond]

\* A throw: the error is kept and every later step of the call is skipped.
Throw(s, e) == [s EXCEPT !.ch.err = e]
Logged(s, name) == [s EXCEPT !.ch.log = Append(@, name)]
Thrown(s) == Failed(s.ch.err)

\* (a constructor that runs the authorization checks before the rate limit)
BaseChain_AuthFirst(ep, granted, c, clock, prefix, utype, argBase, hasCache, hasIp) ==
  LET runRL == hasCache /\ hasIp /\ ep.rateLimit.on
      s0 == [cache |-> c, err |-> NoError, log |-> <<>>, baseAction |-> argBase]
      limited(s, rl) == [s EXCEPT !.cache = rl.cache, !.err = rl.err, !.log = Append(@, "rateLimit")]
      rateLimit(s) ==
        IF Failed(s.err) \/ ~runRL THEN s
        ELSE limited(s, checkRateLimit(c, clock, ep.rateLimit.ttl, ep.rateLimit.max, hasIp, hasCache))
      visitor(s) ==
        IF ep.canVisitorVisit THEN s
        ELSE [s EXCEPT !.err = visitorVisit(utype, FALSE), !.log = Append(@, "visitor")]
      checked(s, r) == [s EXCEPT !.err = r.err, !.baseAction = r.baseAction, !.log = Append(@, "action")]
      action(s) ==
        IF Failed(s.err) \/ ~ep.shouldCheckAction THEN s
        ELSE checked(s, checkAction(IF ep.baseAction # "" THEN ep.baseAction ELSE s.baseAction,
                                    s.baseAction, ep.baseAction, prefix, granted))
      userType(s) ==
        IF Failed(s.err) \/ ep.allowedUsers = {} THEN s
        ELSE [s EXCEPT !.err = checkIfUserIs(utype, ep.allowedUsers), !.log = Append(@, "userType")]
  IN rateLimit(userType(action(visitor(s0))))

\* BaseChain constructor: the cache, the error thrown, the checks run in
\* order and this.baseAction when the constructor ends.
BaseChain(ep, granted, c, clock, prefix, utype, argBase, hasCache, hasIp) ==
  LET runRL == hasCache /\ hasIp /\ ep.rateLimit.on
      s0 == [cache |-> c, err |-> NoError, log |-> <<>>, baseAction |-> argBase]
      limited(s, rl) == [s EXCEPT !.cache = rl.cache, !.err = rl.err, !.log = Append(@, "rateLimit")]
      rateLimit(s) ==
        IF ~runRL THEN s
        ELSE limited(s, checkRateLimit(c, clock, ep.rateLimit.ttl, ep.rateLimit.max, hasIp, hasCache))
      visitor(s) ==
        IF Failed(s.err) \/ ep.canVisitorVisit THEN s
        ELSE [s EXCEPT !.err = visitorVisit(utype, FALSE), !.log = Append(@, "visitor")]
      checked(s, r) == [s EXCEPT !.err = r.err, !.baseAction = r.baseAction, !.log = Append(@, "action")]
      action(s) ==
        IF Failed(s.err) \/ ~ep.shouldCheckAction THEN s
        ELSE checked(s, checkAction(IF ep.baseAction # "" THEN ep.baseAction ELSE s.baseAction,
                                    s.baseAction, ep.baseAction, prefix, granted))
      userType(s) ==
        IF Failed(s.err) \/ ep.allowedUsers = {} THEN s
        ELSE [s EXCEPT !.err = checkIfUserIs(utype, ep.allowedUsers), !.log = Append(@, "userType")]
  IN userType(action(visitor(rateLimit(s0))))

\* this.callback: what the callback given to predicate returned, a value or
\* a Promise, named here by what it settles to
Promises == {"Promise:true", "Promise:false", "Promise:undefined", "Promise:rejects"}
Callbacks == {"undefined", "true", "false"} \cup Promises
\* whether the value, or the one the Promise settles to, passes "if (!result)"
Passes(cb) == cb \in {"true", "Promise:true"}
\* the reason a rejecting Promise carries: an error that is no StatusError
Rejection == [status |-> -1, title |-> "TypeError", detail |-> NoErrors]

\* BaseChain.prePerform: the predicate registered by predicate(callback, msg).
\* Only an undefined this.callback skips the check; a Promise is awaited, its
\* rejection is thrown on, and what it settles to is tested like a plain value.
BasePrePerform(s) ==
  IF s.ch.callback = "undefined" THEN s
  ELSE IF s.ch.callback = "Promise:rejects"
       THEN Throw(Logged(s, "predicate"), Rejection)
       ELSE IF ~Passes(s.ch.callback)
            THEN Throw(Logged(s, "predicate"), StatusError(403, "Predicate Not Succeeded"))
            ELSE Logged(s, "predicate")

\* One call of _checkIfKeysExist / _checkIfKeysValueExist from a prePerform,
\* on this.filter (field "filter") or the document or update (field "body").
ScanBase(s) == IF s.ch.baseAction # "" THEN s.ch.baseAction ELSE s.ep.baseAction

ScanKeys(s, field, keys, shouldDelete, prefix, granted) ==
  LET scanned(r) ==
        [s EXCEPT !.ch[field] = r.obj, !.ch.err = r.err,
                  !.ch.log = Append(@, "deniedKeys"),
                  !.ch.ghost.stripped[field] = @ \cup ((DOMAIN s.ch[field]) \ (DOMAIN r.obj)),
                  !.ch.ghost.caller[field] = IF s.ch.ghost.parsed THEN @ ELSE r.obj]
  IN IF Thrown(s) \/ keys = <<>> THEN s
     ELSE scanned(_checkIfKeysExist(s.ch[field], keys, "", shouldDelete, ScanBase(s), prefix, granted))

ScanKeysValue(s, field, record, shouldDelete, prefix, granted) ==
  LET scanned(r) ==
        [s EXCEPT !.ch[field] = r.obj, !.ch.err = r.err,
                  !.ch.log = Append(@, "deniedKeysValue"),
                  !.ch.ghost.stripped[field] = @ \cup ((DOMAIN s.ch[field]) \ (DOMAIN r.obj)),
                  !.ch.ghost.caller[field] = IF s.ch.ghost.parsed THEN @ ELSE r.obj]
  IN IF Thrown(s) \/ record = <<>> THEN s
     ELSE scanned(_checkIfKeysValueExist(s.ch[field], record, "", shouldDelete, ScanBase(s), prefix, granted))

\* The schema getEntity(iModel, "docs:model") gives CreateChain to fall back on.
EntitySchema == Single(SubSchema({"name"}, {"name"}, EmptyObj, Undefined, Undefined))

\* ---- prePerform of each chain, from the return of "await super.prePerform()"
\* to its own return; s is [ch |-> the chain, ep |-> the endpoint]

ReadPrePerform(s0, granted) ==
  LET scanKeys(s) == ScanKeys(s, "filter", s.ep.query.deniedKeys, TRUE, "Read", granted)
      scanValues(s) == ScanKeysValue(s, "filter", s.ep.query.deniedKeysValue, TRUE, "Read", granted)
      parse(s) == IF Thrown(s) THEN s ELSE [s EXCEPT !.ch.filter = parseNestedObject(@), !.ch.ghost.parsed = TRUE]
      validated(s) == [Logged(s, "schema") EXCEPT !.ch.ghost.validated.filter = Obj(s.ch.filter)]
      decide(s, r) ==
        IF ~r.isValid
        THEN Throw(validated(s), StatusErrorWith(403, "Restricted Query", r.errors))
        ELSE [validated(s) EXCEPT !.ep.query.default = r.defaultValue, !.ep.query.options = r.defaultOption]
      validate(s) ==
        IF Thrown(s) \/ s.ep.query.schemas.mode = "none" THEN s
        ELSE decide(s, validateDataSchema(s.ch.filter, setCurrentUserSchema(s.ep.query.schemas),
                                          s.ep.query.default, s.ep.query.options))
  IN validate(parse(scanValues(scanKeys(s0))))

DeletePrePerform(s0, granted) ==
  LET scanKeys(s) == ScanKeys(s, "filter", s.ep.query.deniedKeys, FALSE, "Delete", granted)
      scanValues(s) == ScanKeysValue(s, "filter", s.ep.query.deniedKeysValue, FALSE, "Delete", granted)
      validated(s) == [Logged(s, "schema") EXCEPT !.ch.ghost.validated.filter = Obj(s.ch.filter)]
      decide(s, r) ==
        IF ~r.isValid
        THEN Throw(validated(s), StatusErrorWith(403, "Restricted Query", r.errors))
        ELSE [validated(s) EXCEPT !.ep.query.default = r.defaultValue]
      validate(s) ==
        IF Thrown(s) \/ s.ep.query.schemas.mode = "none" THEN s
        ELSE decide(s, validateDataSchema(s.ch.filter, s.ep.query.schemas, s.ep.query.default, Undefined))
  IN validate(scanValues(scanKeys(s0)))

CreatePrePerform(s0, granted) ==
  LET scanKeys(s) == ScanKeys(s, "body", s.ep.body.deniedKeys, TRUE, "Create", granted)
      scanValues(s) == ScanKeysValue(s, "body", s.ep.body.deniedKeysValue, TRUE, "Create", granted)
      validated(s) == [Logged(s, "schema") EXCEPT !.ch.ghost.validated.body = Obj(s.ch.body)]
      decide(s, r) ==
        IF ~r.isValid
        THEN Throw(validated(s), StatusErrorWith(403, "Restricted Data", r.errors))
        ELSE [validated(s) EXCEPT !.ep.body.default = r.defaultValue]
      decideEntity(s, res) ==
        IF res # <<>> THEN Throw(validated(s), StatusErrorWith(403, "Restricted Data", Errors(res)))
        ELSE validated(s)
      validate(s) ==
        IF Thrown(s) THEN s
        ELSE IF s.ep.body.schemas.mode # "none"
        THEN decide(s, validateDataSchema(s.ch.body, s.ep.body.schemas, s.ep.body.default, Undefined))
        ELSE IF s.ep.body.useDefaultSchema
        THEN decideEntity(s, CompileValidate(EntitySchema, s.ch.body))
        ELSE s
  IN validate(scanValues(scanKeys(s0)))

UpdatePrePerform(s0, granted) ==
  LET scanFilterKeys(s) == ScanKeys(s, "filter", s.ep.query.deniedKeys, TRUE, "Update", granted)
      scanFilterValues(s) == ScanKeysValue(s, "filter", s.ep.query.deniedKeysValue, TRUE, "Update", granted)
      scanBodyKeys(s) == ScanKeys(s, "body", s.ep.body.deniedKeys, TRUE, "Update", granted)
      scanBodyValues(s) == ScanKeysValue(s, "body", s.ep.body.deniedKeysValue, TRUE, "Update", granted)
      validated(s, field) == [Logged(s, "schema") EXCEPT !.ch.ghost.validated[field] = Obj(s.ch[field])]
      validateFilter(s) ==
        IF Thrown(s) \/ s.ep.query.schemas.mode = "none" \/ isEmpty(s.ch.filter) THEN s
        ELSE IF CompileValidate(s.ep.query.schemas, s.ch.filter) # <<>>
        THEN Throw(validated(s, "filter"), StatusError(403, "Restricted Query"))
        ELSE validated(s, "filter")
      decideBody(s, res) ==
        IF res # <<>> THEN Throw(validated(s, "body"), StatusErrorWith(403, "Restricted Body", Errors(res)))
        ELSE validated(s, "body")
      validateBody(s) ==
        IF Thrown(s) \/ s.ep.body.schemas.mode = "none" \/ isEmpty(s.ch.body) THEN s
        ELSE decideBody(s, CompileValidate(s.ep.body.schemas, s.ch.body))
  IN validateBody(validateFilter(scanBodyValues(scanBodyKeys(scanFilterValues(scanFilterKeys(s0))))))

\* ---- the rest of perform, after prePerform returned
\* const { itemsCount, page, projection, sort, populate, ..._filter } = this.filter
OptionKeys == {"itemsCount", "page", "projection", "sort", "populate"}
Restrict(obj, keys) == [k \in (DOMAIN obj) \cap keys |-> obj[k]]

DefaultFilter(ep) == IF IsDefined(ep.query.default) THEN setCurrentUser(ep.query.default, FALSE) ELSE Undefined

ReadPerform(s) ==
  LET _filter == Restrict(s.ch.filter, (DOMAIN s.ch.filter) \ OptionKeys)
      userOptions == Restrict(s.ch.filter, OptionKeys)
      filter == makeQuery(_filter, DefaultFilter(s.ep), s.ep.query.merge, s.ep.query.isPrior)
  IN [s EXCEPT !.ch.ghost.merged.filter = Obj(_filter),
               !.ch.result = [present |-> TRUE, filter |-> filter,
                              options |-> makeQueryOption(userOptions, s.ep.query.options)]]

\* ---- the uploads of CreateChain.perform and UpdateChain.perform
\* tempUploads, by field: the fields the endpoint declares and those the
\* uploadFile observer finds in the data (key.endsWith("_file_url") &&
\* typeof value === "string"), one entry a field (uniqBy)
tempUploads(ep, data) ==
  LET FileKeys == {"photo_file_url"}
  IN ep.body.uploads \cup {k \in (DOMAIN data) \cap FileKeys : IsString(data[k])}
\* moveFieldsFile(tempUploads, data) when it resolves: the final URL of each
\* field the data carry
moveFieldsFile(uploads, data) == [f \in uploads \cap (DOMAIN data) |-> "url"]
\* the reason it rejects with: an error of the storage service, no StatusError
UploadError == [status |-> -1, title |-> "UploadError", detail |-> NoErrors]

\* CreateChain.perform after the uploads: doc is the clone made before them
CreatePerform(s, doc, files) ==
  [s EXCEPT !.ch.result = [present |-> TRUE, doc |-> merge(doc, files), options |-> Undefined,
                           filter |-> s.ep.query.default]]

\* UpdateChain.perform after the uploads: body is the clone made before them
UpdatePerform(s, body, files) ==
  LET filter == makeQuery(s.ch.filter, DefaultFilter(s.ep), s.ep.query.merge, s.ep.query.isPrior)
  IN [s EXCEPT !.ch.ghost.merged.filter = Obj(s.ch.filter),
               !.ch.result = [present |-> TRUE, filter |-> filter, update |-> merge(body, files),
                              options |-> IF IsDefined(s.ep.query.options) THEN s.ep.query.options
                                          ELSE Obj([new |-> "true"])]]

DeletePerform(s) ==
  LET filter == makeQuery(s.ch.filter, s.ep.query.default, s.ep.query.merge, s.ep.query.isPrior)
  IN [s EXCEPT !.ch.ghost.merged.filter = Obj(s.ch.filter),
               !.ch.result = [present |-> TRUE, filter |-> filter, options |-> Undefined]]

\* ------------------------------------------------------------------ state
VARIABLES
  now,        \* Date.now()
  cache,      \* the shared NodeCache
  endpoint,   \* level.access.endpoints[path], the object every chain of the path reads
  granted,    \* level.actions
  kind,       \* the verb of the route: the chain class createChain builds for it
  chain,      \* the chain of each request in flight
  admitted,   \* requests checkRateLimit let through since the primary entry was created
  denied,     \* whether it has turned a request away since then
  call        \* the last direct call of a method or function: its arguments and result

vars == <<now, cache, endpoint, granted, kind, chain, admitted, denied, call>>

\* no direct call made yet
NoCall == [fn |-> "none"]

Chains == 1..NumChains

\* ---- endpoint descriptors
Query(deniedKeys, deniedKeysValue, schemas, default, options, mergeFlag, isPrior) ==
  [deniedKeys |-> deniedKeys, deniedKeysValue |-> deniedKeysValue, schemas |-> schemas,
   default |-> default, options |-> options, merge |-> mergeFlag, isPrior |-> isPrior]
Body(deniedKeys, deniedKeysValue, schemas, default, useDefaultSchema, uploads) ==
  [deniedKeys |-> deniedKeys, deniedKeysValue |-> deniedKeysValue, schemas |-> schemas,
   default |-> default, useDefaultSchema |-> useDefaultSchema, uploads |-> uploads]
NoRateLimit == [on |-> FALSE, ttl |-> 0, max |-> 0]
RateLimit(ttl, max) == [on |-> TRUE, ttl |-> ttl, max |-> max]
Endpoint(auth, rateLimit, data) ==
  [canVisitorVisit |-> auth.canVisitorVisit, shouldCheckAction |-> auth.shouldCheckAction,
   baseAction |-> auth.baseAction, allowedUsers |-> auth.allowedUsers,
   rateLimit |-> rateLimit, query |-> data.query, body |-> data.body]

Auth(canVisitorVisit, shouldCheckAction, baseAction, allowedUsers) ==
  [canVisitorVisit |-> canVisitorVisit, shouldCheckAction |-> shouldCheckAction,
   baseAction |-> baseAction, allowedUsers |-> allowedUsers]
\* an endpoint the level does not list resolves to undefined: AuthUndefined, NoRateLimit, DataNone
AuthUndefined == Auth(FALSE, TRUE, "", {})

NameString == SubSchema({"name"}, {"name"}, EmptyObj, Undefined, Undefined)
RoleOwn == SubSchema({"role"}, {"role"}, EmptyObj, Obj([name |-> "*current_user*"]), Obj([sort |-> "bob"]))
DataNone ==
  [query |-> Query(<<>>, <<>>, NoSchema, Undefined, Undefined, FALSE, FALSE),
   body |-> Body(<<>>, <<>>, NoSchema, Undefined, TRUE, {})]
DataSingle ==
  [query |-> Query(<<"role">>, <<>>, Single(NameString), Obj([role |-> "*current_user*"]), Undefined, TRUE, FALSE),
   body |-> Body(<<"role">>, <<>>, Single(NameString), Obj([role |-> "bob"]), TRUE, {})]
\* denied keys and a schema, no default to merge
DataDenied ==
  [query |-> Query(<<"role">>, <<>>, Single(NameString), Undefined, Undefined, FALSE, FALSE),
   body |-> Body(<<"role">>, <<>>, Single(NameString), Undefined, TRUE, {})]
DataAnyOf ==
  [query |-> Query(<<>>, <<[key |-> "role", values |-> {"admin"}]>>, AnyOf(<<RoleOwn, NameString>>),
                   Arr(<<Obj([name |-> "bob"]), Obj([role |-> "bob"])>>), Arr(<<Undefined, Obj([sort |-> "bob"])>>),
                   TRUE, TRUE),
   body |-> Body(<<>>, <<[key |-> "role", values |-> {"admin"}]>>, AnyOf(<<RoleOwn, NameString>>),
                 Arr(<<Obj([name |-> "bob"]), Obj([role |-> "bob"])>>), FALSE, {"photo_file_url"})]

BaseActions(k) == {<<k, "Item", "", "">>}
\* every verb on Item
GrantedAll == UNION {BaseActions(k) : k \in Kinds}

\* ---- request inputs
\* among them a filter with a key in path syntax and a body with a file field
FilterInputs == {EmptyObj, [name |-> "bob"], [name |-> "123"], [name |-> "bob", role |-> "admin"],
                 [name |-> "bob", role |-> "0"], [role |-> "admin", sort |-> "bob"],
                 [k \in {"name", "role", "role.x"} |->
                    IF k = "name" THEN "bob" ELSE IF k = "role" THEN "admin" ELSE "123"]}
BodyInputs == {EmptyObj, [name |-> "bob"], [name |-> "123"], [name |-> "bob", role |-> "admin"],
               [name |-> "bob", role |-> "0"], [name |-> "bob", photo_file_url |-> "bob"]}
UpdateFilterInputs == {EmptyObj, [name |-> "bob", role |-> "admin"]}
\* the filters and bodies sent to an endpoint: every input where it declares
\* schemas and defaults, fewer where it declares none
FiltersOf(ep, k) ==
  IF k = "Create" THEN {EmptyObj}
  ELSE IF ep.query.schemas.mode = "none" THEN {[name |-> "bob", role |-> "admin"]}
  ELSE IF ~IsDefined(ep.query.default) THEN {[name |-> "123"], [name |-> "bob", role |-> "admin"]}
  ELSE IF k = "Update" THEN UpdateFilterInputs ELSE FilterInputs
BodiesOf(ep, k) ==
  IF k \notin {"Create", "Update"} THEN {EmptyObj}
  ELSE IF ep.query.schemas.mode = "none"
       THEN {[name |-> "bob", role |-> "admin"], [name |-> "bob", photo_file_url |-> "bob"]}
  ELSE IF ~IsDefined(ep.query.default) THEN {[name |-> "123"], [name |-> "bob", role |-> "admin"]}
  ELSE BodyInputs
\* the requests sent to a route: the principal is a visitor or a customer;
\* the base action is given where a check reads it (the constructor's, or
\* the rejection-mode scan of a Delete); a cache and an address come with
\* the request where the endpoint has a rate-limit policy
Requests(ep, k) ==
  {[utype |-> u, argBase |-> b, hasCache |-> hc, hasIp |-> hi, filter |-> f, body |-> d] :
     u \in UserTypes,
     b \in IF (ep.shouldCheckAction /\ ~ep.rateLimit.on) \/ (k = "Delete" /\ IsDefined(ep.query.default))
           THEN {"", "Item"} ELSE {""},
     hc \in IF ep.rateLimit.on THEN BOOLEAN ELSE {FALSE},
     hi \in IF ep.rateLimit.on THEN BOOLEAN ELSE {FALSE},
     f \in FiltersOf(ep, k), d \in BodiesOf(ep, k)}

\* ---- the routes: an endpoint, the actions granted to the principal's level
\* and the verb
AuthFull == Auth(FALSE, TRUE, "Item", {"Customer"})
AuthOpen == Auth(TRUE, FALSE, "", {})
Route(ep, g, k) == [endpoint |-> ep, granted |-> g, kind |-> k]
Routes ==
  {Route(Endpoint(AuthUndefined, NoRateLimit, DataNone), g, k) : g \in {{}, GrantedAll}, k \in {"Read", "Create"}}
  \cup {Route(Endpoint(AuthFull, NoRateLimit, DataNone), g, k) : g \in {{}, GrantedAll}, k \in {"Update", "Delete"}}
  \cup {Route(Endpoint(AuthOpen, NoRateLimit, DataNone), {}, k) : k \in {"Read", "Create"}}
  \cup {Route(Endpoint(Auth(TRUE, FALSE, "", {"Customer"}), NoRateLimit, DataNone), {}, "Read")}
  \cup {Route(Endpoint(AuthFull, RateLimit(1, 1), DataNone), g, "Read") : g \in {{}, BaseActions("Read")}}
  \cup {Route(Endpoint(AuthOpen, NoRateLimit, DataDenied), {}, "Delete")}
DataRoutes ==
  {Route(Endpoint(AuthOpen, NoRateLimit, d), {}, k) : d \in {DataSingle, DataAnyOf}, k \in Kinds}
  \cup {Route(Endpoint(AuthOpen, NoRateLimit, d), GrantedAll \cup {<<"Delete", "Item", "Role", "">>}, "Delete") :
           d \in {DataSingle, DataAnyOf}}

\* ---- arguments of the public checks called on a built chain
ArgKeys == <<"role">>
ArgRecord == <<[key |-> "name", values |-> {"bob"}]>>
ArgBases == {"", "Order"}
ArgUsers == {"Customer"}

\* ------------------------------------------------------------------ actions
\* new XChain(iModel, filter / doc, user, path, baseAction, cache, ip)
Construct(c, utype, argBase, hasCache, hasIp, filter, body, maxRetry) ==
  LET ranRL(r) == "rateLimit" \in {r.log[i] : i \in DOMAIN r.log}
      built(r) ==
        /\ r.cache["retryKey"].val.retry <= maxRetry
        /\ cache' = r.cache
        /\ admitted' = IF ranRL(r) /\ r.err # TooManyRequests
                       THEN IF CacheHas(cache, "key", now) THEN admitted + 1 ELSE 1
                       ELSE admitted
        /\ denied' = IF ~ranRL(r) THEN denied
                     ELSE IF CacheHas(cache, "key", now) THEN denied \/ r.err = TooManyRequests ELSE FALSE
        /\ chain' = [chain EXCEPT ![c] =
             [IdleChain EXCEPT !.pc = IF Failed(r.err) THEN "rejected" ELSE "constructed",
                               !.utype = utype, !.argBase = argBase,
                               !.hasCache = hasCache, !.hasIp = hasIp,
                               !.baseAction = r.baseAction,
                               !.req = [filter |-> filter, body |-> body],
                               !.filter = filter, !.body = body,
                               !.ghost.caller = [filter |-> filter, body |-> body],
                               !.err = r.err, !.log = r.log,
                               !.built = ~Failed(r.err),
                               !.ghost.cleared =
                                  /\ ranRL(r) /\ ~CacheHas(cache, "key", now)
                                  /\ CacheHas(cache, "retryKey", now) /\ ~r.cache["retryKey"].live]]
  IN /\ chain[c].pc = "idle"
     /\ built(BaseChain(endpoint, granted, cache, now, kind, utype, argBase, hasCache, hasIp))
     /\ UNCHANGED <<now, endpoint, granted, kind, call>>

\* chain.predicate(callback, msg): the callback is called at once and what
\* it returns, a value or a Promise, is kept over what an earlier call left
Predicate(c, result) ==
  /\ chain[c].built
  /\ chain[c].calls < MaxCalls
  /\ chain' = [chain EXCEPT ![c].callback = result, ![c].calls = @ + 1]
  /\ UNCHANGED <<now, cache, endpoint, granted, kind, admitted, denied, call>>

prePerform(s, k, g) ==
  CASE k = "Read" -> ReadPrePerform(s, g)
    [] k = "Create" -> CreatePrePerform(s, g)
    [] k = "Update" -> UpdatePrePerform(s, g)
    [] k = "Delete" -> DeletePrePerform(s, g)

\* perform from the return of prePerform to the uploads: the clone with the
\* user's id in it and the fields to move
\* performData: the data perform hands to setCurrentUser and to
\* moveFieldsFile, the document merged with body.default or the update
performData(s, k) ==
  IF k = "Create"
  THEN merge(s.ch.body, IF s.ep.body.default.tag = "obj" THEN s.ep.body.default.obj ELSE EmptyObj)
  ELSE IF k = "Update" THEN s.ch.body ELSE EmptyObj
performHeld(s, k) ==
  Held(setCurrentUserObj(performData(s, k), FALSE),
       moveFieldsFile(tempUploads(s.ep, performData(s, k)), performData(s, k)))
awaitsUpload(s, k) == k \in {"Create", "Update"} /\ tempUploads(s.ep, performData(s, k)) # {}

\* perform from there to its return
performRest(s, k, held) ==
  CASE k = "Read" -> ReadPerform(s)
    [] k = "Create" -> CreatePerform(s, held.doc, held.files)
    [] k = "Update" -> UpdatePerform(s, held.doc, held.files)
    [] k = "Delete" -> DeletePerform(s)

\* the checks the constructor ran, the part of the log a call of perform keeps
ConstructorChecks == {"rateLimit", "visitor", "action", "userType"}
InConstructor(x) == x \in ConstructorChecks
ConsLog(ch) == SelectSeq(ch.log, InConstructor)

\* ---- the calls of perform in flight on one chain. The chain's own fields
\* follow the first; one that begins while it is in flight is followed in
\* "second". Of(ch, slot) is the chain as the call in that slot sees it,
\* Put(ch0, slot, ch) the chain ch0 after that call's step left it as ch.
Slots == {"first", "second"}
InFlight == {"awaiting", "prechecked", "preperformed", "uploading"}
Of(ch, slot) ==
  IF slot = "first" THEN ch
  ELSE [ch EXCEPT !.pc = ch.second.pc, !.err = ch.second.err, !.log = ch.second.log,
                  !.result = ch.second.result, !.awaited = ch.second.awaited,
                  !.ghost.checked = ch.second.checked,
                  !.ghost.validated = ch.second.validated, !.ghost.merged = ch.second.merged,
                  !.held = ch.second.held]
Put(ch0, slot, ch) ==
  IF slot = "first" THEN ch
  ELSE [ch EXCEPT !.pc = ch0.pc, !.err = ch0.err, !.log = ch0.log,
                  !.result = ch0.result, !.awaited = ch0.awaited,
                  !.ghost.checked = ch0.ghost.checked,
                  !.ghost.validated = ch0.ghost.validated, !.ghost.merged = ch0.ghost.merged,
                  !.held = ch0.held,
                  !.second = [pc |-> ch.pc, err |-> ch.err, log |-> ch.log, result |-> ch.result,
                              awaited |-> ch.awaited, checked |-> ch.ghost.checked,
                              validated |-> ch.ghost.validated, merged |-> ch.ghost.merged,
                              held |-> ch.held]]

\* what the check of BaseChain.prePerform is to make of this.callback
Verdict(cb) == IF cb = "undefined" THEN "undefined" ELSE IF Passes(cb) THEN "passes" ELSE "fails"

\* a call of perform begins: nothing of an earlier call's outcome is left,
\* nor of a second call that has returned; ghost.checked is the verdict due
\* on the this.callback the call reads
Entered(ch, slot) ==
  [Of(ch, slot) EXCEPT !.err = NoError, !.log = ConsLog(ch), !.result = NoResult,
                       !.awaited = "undefined", !.held = NoHeld,
                       !.ghost.validated = NoGhost.validated, !.ghost.merged = NoGhost.merged,
                       !.ghost.checked = Verdict(ch.callback),
                       !.second = IF slot = "first" /\ ch.second.pc \notin InFlight THEN NoSecond ELSE @]

\* chain.perform() up to its first await. BaseChain.prePerform reads
\* this.callback: a Promise is kept by the call and awaited, so the call
\* hands control back before the check; a plain value is checked at once and
\* the call hands control back at "await super.prePerform()". perform is open
\* on a built chain whatever its earlier calls did, also while one is in
\* flight; two calls of a chain are followed at a time.
SuperPrePerform(c, slot) ==
  LET awaits(ch) == [ch EXCEPT !.pc = "awaiting", !.awaited = ch.callback]
      returned(s) == [s.ch EXCEPT !.pc = IF Thrown(s) THEN "rejected" ELSE "prechecked"]
      begun(ch) ==
        IF ch.callback \in Promises THEN awaits(ch)
        ELSE returned(BasePrePerform([ch |-> ch, ep |-> endpoint]))
  IN /\ chain[c].built
     /\ Of(chain[c], slot).pc \notin InFlight
     /\ slot = "second" => chain[c].pc \in InFlight
     /\ chain' = [chain EXCEPT ![c] = Put(chain[c], slot, begun(Entered(chain[c], slot)))]
     /\ UNCHANGED <<now, cache, endpoint, granted, kind, admitted, denied, call>>

\* the Promise the call awaits settles: BaseChain.prePerform goes on with
\* the Promise it read, whatever this.callback holds by now, and the call
\* hands control back at "await super.prePerform()"
Settle(c, slot) ==
  LET returned(s) == [s.ch EXCEPT !.pc = IF Thrown(s) THEN "rejected" ELSE "prechecked",
                                  !.callback = chain[c].callback, !.awaited = "undefined"]
      resumed(ch) == returned(BasePrePerform([ch |-> [ch EXCEPT !.callback = ch.awaited], ep |-> endpoint]))
  IN /\ Of(chain[c], slot).pc = "awaiting"
     /\ chain' = [chain EXCEPT ![c] = Put(chain[c], slot, resumed(Of(chain[c], slot)))]
     /\ UNCHANGED <<now, cache, endpoint, granted, kind, admitted, denied, call>>

\* chain.perform() from there to the return of "await this.prePerform()":
\* the scans, the validation and the writes to the endpoint
PrePerform(c, slot) ==
  LET returned(s) ==
        /\ chain' = [chain EXCEPT ![c] =
                       Put(chain[c], slot, [s.ch EXCEPT !.pc = IF Thrown(s) THEN "rejected" ELSE "preperformed"])]
        /\ endpoint' = s.ep
  IN /\ Of(chain[c], slot).pc = "prechecked"
     /\ returned(prePerform([ch |-> Of(chain[c], slot), ep |-> endpoint], kind, granted))
     /\ UNCHANGED <<now, cache, granted, kind, admitted, denied, call>>

\* chain.perform() from there to "await moveFieldsFile" when a Create or an
\* Update has fields to move, to its return otherwise. The data handed to
\* setCurrentUser are the data merged into the descriptor.
Perform(c, slot) ==
  LET s0 == [ch |-> Of(chain[c], slot), ep |-> endpoint]
      merging(s) == IF kind \in {"Create", "Update"}
                    THEN [s EXCEPT !.ch.ghost.merged.body = Obj(s.ch.body)]
                    ELSE s
      awaits(s) == [s.ch EXCEPT !.pc = "uploading", !.held = performHeld(s, kind)]
      returned(s) == [s.ch EXCEPT !.pc = "completed"]
      stepped(s) ==
        IF awaitsUpload(s, kind) THEN awaits(s)
        ELSE returned(performRest(s, kind, Held(setCurrentUserObj(performData(s, kind), FALSE), EmptyObj)))
  IN /\ Of(chain[c], slot).pc = "preperformed"
     /\ chain' = [chain EXCEPT ![c] = Put(chain[c], slot, stepped(merging(s0)))]
     /\ UNCHANGED <<now, cache, endpoint, granted, kind, admitted, denied, call>>

\* moveFieldsFile settles: resolved, perform merges the files into the clone
\* it holds and returns the descriptor, reading this.filter and the
\* endpoint as they are by then; rejected, perform rejects with its reason
Upload(c, slot, resolved) ==
  LET s0 == [ch |-> Of(chain[c], slot), ep |-> endpoint]
      returned(s) == [s.ch EXCEPT !.pc = "completed", !.held = NoHeld]
      failed(s) == [s.ch EXCEPT !.pc = "rejected", !.err = UploadError, !.held = NoHeld]
  IN /\ Of(chain[c], slot).pc = "uploading"
     /\ chain' = [chain EXCEPT ![c] =
                    Put(chain[c], slot, IF resolved THEN returned(performRest(s0, kind, s0.ch.held))
                                        ELSE failed(s0))]
     /\ UNCHANGED <<now, cache, endpoint, granted, kind, admitted, denied, call>>

\* ---- the public checks of the Chain interface, called on a built chain.
\* The error such a call throws goes to its caller (thrown); a perform of the
\* chain that is in flight goes on.
\* the object the scans of a chain class work on
ScanField(k) == IF k \in {"Create", "Update"} THEN "body" ELSE "filter"

\* chain.checkIfKeysExist(keys, undefined, shouldDelete)
CheckIfKeysExist(c, argKeys, argDelete) ==
  LET f == ScanField(kind)
      keys == IF kind = "Read" /\ endpoint.query.deniedKeys # <<>> THEN endpoint.query.deniedKeys ELSE argKeys
      shouldDelete == kind # "Delete" /\ argDelete
      scanned(r) ==
        chain' = [chain EXCEPT ![c][f] = r.obj, ![c].thrown = r.err, ![c].calls = @ + 1,
                               ![c].ghost.removed[f] = @ \cup ((DOMAIN chain[c][f]) \ (DOMAIN r.obj)),
                               ![c].ghost.caller[f] = IF chain[c].ghost.parsed THEN @ ELSE r.obj]
  IN /\ chain[c].built
     /\ chain[c].calls < MaxCalls
     /\ scanned(_checkIfKeysExist(chain[c][f], keys, "", shouldDelete,
                                  ScanBase([ch |-> chain[c], ep |-> endpoint]), kind, granted))
     /\ UNCHANGED <<now, cache, endpoint, granted, kind, admitted, denied, call>>

\* chain.checkIfKeysValueExist(record, undefined, shouldDelete)
CheckIfKeysValueExist(c, argRecord, argDelete) ==
  LET f == ScanField(kind)
      record == IF kind = "Read" /\ endpoint.query.deniedKeysValue # <<>>
                THEN endpoint.query.deniedKeysValue ELSE argRecord
      shouldDelete == kind # "Delete" /\ argDelete
      scanned(r) ==
        chain' = [chain EXCEPT ![c][f] = r.obj, ![c].thrown = r.err, ![c].calls = @ + 1,
                               ![c].ghost.removed[f] = @ \cup ((DOMAIN chain[c][f]) \ (DOMAIN r.obj)),
                               ![c].ghost.caller[f] = IF chain[c].ghost.parsed THEN @ ELSE r.obj]
  IN /\ chain[c].built
     /\ chain[c].calls < MaxCalls
     /\ scanned(_checkIfKeysValueExist(chain[c][f], record, "", shouldDelete,
                                       ScanBase([ch |-> chain[c], ep |-> endpoint]), kind, granted))
     /\ UNCHANGED <<now, cache, endpoint, granted, kind, admitted, denied, call>>

\* chain.checkAction(baseAction)
CheckAction(c, argBase) ==
  LET checked(r) == chain' = [chain EXCEPT ![c].baseAction = r.baseAction, ![c].thrown = r.err,
                                           ![c].calls = @ + 1]
  IN /\ chain[c].built
     /\ chain[c].calls < MaxCalls
     /\ checked(checkAction(argBase, chain[c].baseAction, endpoint.baseAction, kind, granted))
     /\ UNCHANGED <<now, cache, endpoint, granted, kind, admitted, denied, call>>

\* chain.checkUser(currentUserType, allowedUsers)
CheckUser(c, utype, allowedUsers) ==
  /\ chain[c].built
  /\ chain[c].calls < MaxCalls
  /\ chain' = [chain EXCEPT ![c].thrown = checkIfUserIs(utype, allowedUsers), ![c].calls = @ + 1]
  /\ UNCHANGED <<now, cache, endpoint, granted, kind, admitted, denied, call>>

\* chain.checkIfUserIs(users)
CheckIfUserIs(c, users) ==
  /\ chain[c].built
  /\ chain[c].calls < MaxCalls
  /\ chain' = [chain EXCEPT ![c].thrown = checkIfUserIs(chain[c].utype, users), ![c].calls = @ + 1]
  /\ UNCHANGED <<now, cache, endpoint, granted, kind, admitted, denied, call>>

\* chain.visitorVisit(canVisit)
VisitorVisit(c, canVisit) ==
  /\ chain[c].built
  /\ chain[c].calls < MaxCalls
  /\ chain' = [chain EXCEPT ![c].thrown = visitorVisit(chain[c].utype, canVisit), ![c].calls = @ + 1]
  /\ UNCHANGED <<now, cache, endpoint, granted, kind, admitted, denied, call>>

\* chain.checkRateLimit(windows, max)
CheckRateLimit(c, windows, max, maxRetry) ==
  LET ran == chain[c].hasIp /\ chain[c].hasCache
      limited(r) ==
        /\ r.cache["retryKey"].val.retry <= maxRetry
        /\ cache' = r.cache
        /\ admitted' = IF ran /\ r.err # TooManyRequests
                       THEN IF CacheHas(cache, "key", now) THEN admitted + 1 ELSE 1
                       ELSE admitted
        /\ denied' = IF ~ran THEN denied
                     ELSE IF CacheHas(cache, "key", now) THEN denied \/ r.err = TooManyRequests ELSE FALSE
        /\ chain' = [chain EXCEPT ![c].thrown = r.err, ![c].calls = @ + 1]
  IN /\ chain[c].built
     /\ chain[c].calls < MaxCalls
     /\ limited(checkRateLimit(cache, now, windows, max, chain[c].hasIp, chain[c].hasCache))
     /\ UNCHANGED <<now, endpoint, granted, kind, call>>

\* the routing layer answers the request and drops the chain
Release(c) ==
  /\ chain[c].pc \in {"completed", "rejected"}
  /\ chain[c].second.pc \notin InFlight
  /\ chain' = [chain EXCEPT ![c] = IdleChain]
  /\ UNCHANGED <<now, cache, endpoint, granted, kind, admitted, denied, call>>

\* the clock advances; entries whose livetime has passed are gone
Tick(limit) ==
  /\ now < limit
  /\ now' = now + 1
  /\ cache' = CachePurge(cache, now + 1)
  /\ admitted' = IF CacheHas(cache, "key", now + 1) THEN admitted ELSE 0
  /\ denied' = (CacheHas(cache, "key", now + 1) /\ denied)
  /\ UNCHANGED <<endpoint, granted, kind, chain, call>>

\* ------------------------------------------------------------------ specifications
\* What the caller of chain 1 may do next: send the request the chain is
\* built for, register a callback, call perform (again, or while a call of it
\* is in flight), call any public check, and what the runtime may do: resume a
\* call of perform at any of its awaits, answer the request.
Caller ==
  \/ \E r \in Requests(endpoint, kind) :
        Construct(1, r.utype, r.argBase, r.hasCache, r.hasIp, r.filter, r.body, 1)
  \/ \E result \in Callbacks : Predicate(1, result)
  \/ \E slot \in Slots : SuperPrePerform(1, slot)
  \/ \E slot \in Slots : Settle(1, slot)
  \/ \E slot \in Slots : PrePerform(1, slot)
  \/ \E slot \in Slots : Perform(1, slot)
  \/ \E slot \in Slots, resolved \in BOOLEAN : Upload(1, slot, resolved)
  \/ Release(1)
  \/ \E argDelete \in BOOLEAN : CheckIfKeysExist(1, ArgKeys, argDelete)
  \/ \E argDelete \in BOOLEAN : CheckIfKeysValueExist(1, ArgRecord, argDelete)
  \/ \E argBase \in ArgBases : CheckAction(1, argBase)
  \/ \E utype \in UserTypes : CheckUser(1, utype, ArgUsers)
  \/ CheckIfUserIs(1, ArgUsers)
  \/ VisitorVisit(1, FALSE)
  \/ CheckRateLimit(1, 1, 1, 1)

\* Spec: one chain at a time on a route of Routes; the clock is followed
\* from the first cache entry on, since only the cache reads it.
Init ==
  /\ now = 1
  /\ cache = EmptyCache
  /\ \E r \in Routes : endpoint = r.endpoint /\ granted = r.granted /\ kind = r.kind
  /\ chain = [c \in Chains |-> IdleChain]
  /\ admitted = 0
  /\ denied = FALSE
  /\ call = NoCall

Next ==
  \/ Caller
  \/ cache # EmptyCache /\ Tick(MaxClock)

Spec == Init /\ [][Next]_vars

\* SpecData: the same on the routes of DataRoutes, where the data rules and
\* the requests' data vary; no request comes with a cache, so no entry is
\* ever set and the clock is not followed
InitData ==
  /\ now = 1
  /\ cache = EmptyCache
  /\ \E r \in DataRoutes : endpoint = r.endpoint /\ granted = r.granted /\ kind = r.kind
  /\ chain = [c \in Chains |-> IdleChain]
  /\ admitted = 0
  /\ denied = FALSE
  /\ call = NoCall

NextData == Caller

SpecData == InitData /\ [][NextData]_vars

\* SpecRL: requests of a customer in flight together on one rate-limited Read
\* route, over every policy (window, max) and every spacing of the calls in time.
InitRL ==
  /\ now = 1
  /\ cache = EmptyCache
  /\ endpoint \in {Endpoint(Auth(FALSE, TRUE, "Item", {}), RateLimit(w, m), DataNone) :
                     w \in 1..MaxWindow, m \in 1..MaxMax}
  /\ granted = BaseActions("Read")
  /\ kind = "Read"
  /\ chain = [c \in Chains |-> IdleChain]
  /\ admitted = 0
  /\ denied = FALSE
  /\ call = NoCall

NextRL ==
  \/ \E c \in Chains : Construct(c, "Customer", "", TRUE, TRUE, EmptyObj, EmptyObj, MaxRetry)
  \/ \E c \in Chains : SuperPrePerform(c, "first")
  \/ \E c \in Chains : PrePerform(c, "first")
  \/ \E c \in Chains : Perform(c, "first")
  \/ \E c \in Chains : Release(c)
  \/ Tick(MaxTime)

SpecRL == InitRL /\ [][NextRL]_vars

\* ------------------------------------------------------------------ rate limiter claims
Window == endpoint.rateLimit.ttl
Max == endpoint.rateLimit.max
Primary == cache["key"]
Penalty == cache["retryKey"]
PrimaryLive == CacheHas(cache, "key", now)
PenaltyLive == CacheHas(cache, "retryKey", now)

\* The step in which the constructor of chain c calls checkRateLimit, and
\* whether the call returned or threw 429.
RateCheckStep(c) ==
  /\ chain[c].pc = "idle" /\ chain'[c].pc # "idle"
  /\ chain'[c].log # <<>> /\ chain'[c].log[1] = "rateLimit"
RateAllowed(c) == chain'[c].err # TooManyRequests
RateDenied(c) == chain'[c].err = TooManyRequests /\ chain'[c].pc = "rejected"

\* C1: from a key without an entry, the first Max calls made before the
\* window expires are all allowed, the primary counter going Max-1, ..., 0,
\* and the call after them is denied with 429 and creates the penalty entry
\* {escalation 1, remaining 2*Max-1} with TTL Window.
C1_Admission ==
  /\ [](PrimaryLive /\ ~denied => admitted >= 1 /\ Primary.val = Max - admitted)
  /\ [][\A c \in Chains : RateCheckStep(c) =>
          /\ ~PrimaryLive =>
               /\ RateAllowed(c)
               /\ cache'["key"] = [live |-> TRUE, val |-> Max - 1, t |-> now + Window]
          /\ PrimaryLive /\ admitted < Max => RateAllowed(c) /\ cache'["key"].val = Primary.val - 1
          /\ PrimaryLive /\ admitted = Max /\ ~denied =>
               /\ RateDenied(c)
               /\ chain'[c].err.status = 429
               /\ cache'["retryKey"] = [live |-> TRUE, val |-> [retry |-> 1, count |-> 2 * Max - 1],
                                        t |-> now + Window]
               /\ cache'["key"] = Primary]_vars

\* Max calls were let through in one window and the next one has been denied.
C1_Witness ==
  /\ Max = 2 /\ admitted = 2 /\ denied
  /\ PenaltyLive /\ Penalty.val = [retry |-> 1, count |-> 3]

\* C2: with the primary counter exhausted and a penalty entry present, a
\* denied call that finds remaining > 0 takes one off remaining and keeps the
\* escalation count; the one that finds remaining = 0 adds one to the
\* escalation count, resets remaining to 2*Max-1 and re-sets the primary
\* counter with the window Window * escalation; and the escalation count
\* never goes down while the penalty entry exists.
C2_Escalation ==
  [][/\ \A c \in Chains : RateCheckStep(c) /\ PrimaryLive /\ Primary.val = 0 /\ PenaltyLive =>
          /\ RateDenied(c)
          /\ Penalty.val.count > 0 =>
               /\ cache'["retryKey"].val = [retry |-> Penalty.val.retry, count |-> Penalty.val.count - 1]
               /\ cache'["key"] = Primary
          /\ Penalty.val.count = 0 =>
               /\ cache'["retryKey"].val = [retry |-> Penalty.val.retry + 1, count |-> 2 * Max - 1]
               /\ cache'["key"] = [live |-> TRUE, val |-> 0, t |-> now + Window * (Penalty.val.retry + 1)]
     /\ PenaltyLive /\ CacheHas(cache', "retryKey", now') => cache'["retryKey"].val.retry >= Penalty.val.retry
    ]_vars

\* The second escalation: the primary counter was just re-set for 3 windows.
C2_Witness ==
  /\ PenaltyLive /\ Penalty.val = [retry |-> 3, count |-> 2 * Max - 1]
  /\ PrimaryLive /\ Primary.val = 0 /\ Primary.t = now + Window * 3
  /\ Window = 2

\* C3: whatever the interleaving of the requests in flight on one key, the
\* requests let through within one window never exceed Max.
C3_AtMostMax == admitted <= Max

\* Two requests of one window are in flight at once, the second one let
\* through while the first was between its construction and its perform.
C3_Witness ==
  /\ Max = 2 /\ admitted = 2
  /\ \E c, d \in Chains : c # d /\ chain[c].pc = "constructed" /\ chain[d].pc = "preperformed"

\* C4: a call that is allowed by decrementing the primary counter leaves the
\* entry's expiry instant where it was.
C4_ExpiryPreserved ==
  [][\A c \in Chains : RateCheckStep(c) /\ PrimaryLive /\ Primary.val > 0 =>
        /\ cache'["key"].val = Primary.val - 1
        /\ cache'["key"].t = Primary.t]_vars

\* C5: while the primary entry exists its value never goes up and its expiry
\* instant never moves earlier, and a call that finds the value 0 is denied.
C5_NoEarlyRefill ==
  [][/\ PrimaryLive /\ CacheHas(cache', "key", now') =>
          /\ cache'["key"].val <= Primary.val
          /\ Primary.t # 0 /\ cache'["key"].t # 0 => cache'["key"].t >= Primary.t
     /\ \A c \in Chains : RateCheckStep(c) /\ PrimaryLive /\ Primary.val = 0 => RateDenied(c)
    ]_vars

\* ------------------------------------------------------------------ chain claims
\* chain c as each of its calls of perform sees it
Calls(c) == {Of(chain[c], slot) : slot \in Slots}
LastCheck(ch) == ch.log[Len(ch.log)]
\* where a rejected chain was rejected
FailedInConstructor(ch) == ch.pc = "rejected" /\ ~ch.built

\* The checks the constructor is to run for the request of chain ch, in the
\* order of the claim, and whether each would fail on the request's inputs.
EnabledChecks(ch) ==
  (IF ch.hasCache /\ ch.hasIp /\ endpoint.rateLimit.on THEN <<"rateLimit">> ELSE <<>>)
  \o (IF ~endpoint.canVisitorVisit THEN <<"visitor">> ELSE <<>>)
  \o (IF endpoint.shouldCheckAction THEN <<"action">> ELSE <<>>)
  \o (IF endpoint.allowedUsers # {} THEN <<"userType">> ELSE <<>>)
RequestBase(ch) == IF endpoint.baseAction # "" THEN endpoint.baseAction ELSE ch.argBase
ExpectedError(ch, check) ==
  CASE check = "visitor" ->
         IF ch.utype = Visitor THEN StatusError(401, "Unauthorized") ELSE NoError
    [] check = "action" ->
         IF RequestBase(ch) = "" THEN PlainError
         ELSE IF <<kind, RequestBase(ch), "", "">> \notin granted THEN StatusError(403, "Permission Denied")
         ELSE NoError
    [] check = "userType" ->
         IF ch.utype \notin endpoint.allowedUsers THEN StatusError(403, "Invalid Account") ELSE NoError
    [] OTHER -> NoError
\* the first check after the rate limit that fails, 0 when none does
FirstFailing(ch) ==
  LET en == EnabledChecks(ch)
      bad == {i \in DOMAIN en : Failed(ExpectedError(ch, en[i]))}
  IN IF bad = {} THEN 0 ELSE CHOOSE i \in bad : \A j \in bad : i <= j

\* C6: the constructor runs rate limit (only with a cache, an address and a
\* policy) -> visitor -> base action -> user type and stops at the first
\* check that fails: the request is rejected with the error of the earliest
\* failing check, and no later check has run.
C6_ConstructionOrder ==
  /\ [](\A c \in Chains : chain[c].pc # "idle" =>
          LET ch == chain[c]
              en == EnabledChecks(ch)
              k == FirstFailing(ch)
          IN IF ch.err = TooManyRequests
             THEN en # <<>> /\ en[1] = "rateLimit" /\ ch.log = <<"rateLimit">> /\ ch.pc = "rejected"
             ELSE IF k = 0
             THEN ConsLog(ch) = en /\ ~FailedInConstructor(ch)
             ELSE ch.log = SubSeq(en, 1, k) /\ ch.err = ExpectedError(ch, en[k]) /\ ch.pc = "rejected")
  /\ [][\A c \in Chains :
          /\ chain[c].pc = "idle" /\ chain'[c].pc # "idle"
          /\ chain'[c].hasCache /\ chain'[c].hasIp /\ endpoint.rateLimit.on
          /\ PrimaryLive /\ Primary.val = 0
          => chain'[c].err = TooManyRequests]_vars

\* A visitor without any grant, on an endpoint for customers only, whose
\* key is exhausted: all four checks would fail, and the error is the 429.
C6_Witness ==
  \E c \in Chains :
    /\ chain[c].err = TooManyRequests
    /\ chain[c].utype = Visitor /\ ~endpoint.canVisitorVisit
    /\ endpoint.shouldCheckAction /\ granted = {}
    /\ endpoint.allowedUsers = {"Customer"}

\* ---- the states a chain has entered, read off the checks it ran
RECURSIVE IsSubSeq(_, _)
IsSubSeq(s, t) ==
  IF s = <<>> THEN TRUE
  ELSE IF t = <<>> THEN FALSE
  ELSE IF Head(s) = Head(t) THEN IsSubSeq(Tail(s), Tail(t))
  ELSE IsSubSeq(s, Tail(t))

AuthorizationChecks == {"visitor", "action", "userType"}
\* passed[i]: the i-th constructor check returned without throwing
RECURSIVE ConstructorStates(_, _, _)
ConstructorStates(log, failed, i) ==
  IF i > Len(log) THEN <<>>
  ELSE LET passed == ~(failed /\ i = Len(log))
           lastAuth == \A j \in (i + 1)..Len(log) : log[j] \notin AuthorizationChecks
           here == IF ~passed THEN <<>>
                   ELSE IF log[i] = "rateLimit" THEN <<"RateChecked">>
                   ELSE IF lastAuth THEN <<"Authorized">>
                   ELSE <<>>
       IN here \o ConstructorStates(log, failed, i + 1)

StatesOf(ch) ==
  <<"Constructed">>
  \o ConstructorStates(ConsLog(ch), FailedInConstructor(ch), 1)
  \o (IF ch.pc \in {"preperformed", "uploading", "completed"} \/ ch.err = UploadError
      THEN <<"PrePerformed">> ELSE <<>>)
  \o (IF ch.pc = "completed" THEN <<"Completed">> ELSE <<>>)
  \o (IF ch.pc = "rejected" THEN <<"Rejected">> ELSE <<>>)

\* a step in which the caller calls one of the public checks of chain c
PublicCheck(c) ==
  \/ \E argDelete \in BOOLEAN : CheckIfKeysExist(c, ArgKeys, argDelete)
  \/ \E argDelete \in BOOLEAN : CheckIfKeysValueExist(c, ArgRecord, argDelete)
  \/ \E argBase \in ArgBases : CheckAction(c, argBase)
  \/ \E utype \in UserTypes : CheckUser(c, utype, ArgUsers)
  \/ CheckIfUserIs(c, ArgUsers)
  \/ VisitorVisit(c, FALSE)
  \/ CheckRateLimit(c, 1, 1, 1)
\* a step in which a call of perform on chain c begins or goes on
PerformStep(c) ==
  /\ chain[c].pc # "idle" /\ chain'[c].pc # "idle"
  /\ \E slot \in Slots : Of(chain'[c], slot).pc # Of(chain[c], slot).pc

\* C7 as stated: the states are entered in the order Constructed,
\* Authorized, RateChecked, PrePerformed, Completed; a failed check leads to
\* Rejected, and on a Rejected chain no check runs any more: no call of
\* perform begins or goes on, no public check is called.
C7_StatedOrder ==
  /\ [](\A c \in Chains : chain[c].pc # "idle" =>
          /\ IsSubSeq(StatesOf(chain[c]),
                      <<"Constructed", "Authorized", "RateChecked", "PrePerformed", "Completed", "Rejected">>)
          /\ Failed(chain[c].err) => chain[c].pc = "rejected")
  /\ [][\A c \in Chains : chain[c].pc = "rejected" => ~PerformStep(c) /\ ~PublicCheck(c)]_vars

\* the steps a call takes from one position to the next
Successors(pc) ==
  CASE pc = "idle" -> {"constructed", "rejected"}
    [] pc = "constructed" -> {"awaiting", "prechecked", "rejected"}
    [] pc = "awaiting" -> {"prechecked", "rejected"}
    [] pc = "prechecked" -> {"preperformed", "rejected"}
    [] pc = "preperformed" -> {"uploading", "completed"}
    [] pc = "uploading" -> {"completed", "rejected"}
    [] pc = "none" -> {"awaiting", "prechecked", "rejected"}
    [] OTHER -> {"idle", "none", "awaiting", "prechecked", "rejected"}
\* a step in which the call in the slot runs no check and returns nothing
CallRests(c, slot) ==
  /\ Of(chain'[c], slot).pc = Of(chain[c], slot).pc /\ Of(chain'[c], slot).log = Of(chain[c], slot).log
  /\ Of(chain'[c], slot).err = Of(chain[c], slot).err /\ Of(chain'[c], slot).result = Of(chain[c], slot).result
\* a step in which the caller calls perform anew: the call in the slot is a
\* new one, which starts over at the predicate, or the slot is left empty
\* by the new first call
PerformAgain(c, slot) ==
  /\ chain[c].built
  /\ \/ /\ Of(chain'[c], slot).pc \in {"awaiting", "prechecked", "rejected"}
        /\ Of(chain'[c], slot).log \in {ConsLog(chain[c]), Append(ConsLog(chain[c]), "predicate")}
        /\ ~Of(chain'[c], slot).result.present
     \/ slot = "second" /\ chain'[c].second = NoSecond

\* C7 amended: a call on a chain (the construction, then a call of perform)
\* enters the states Constructed, RateChecked, Authorized, PrePerformed,
\* Completed strictly in that order (the rate check comes before the
\* authorization checks; a state whose checks are not configured is passed
\* over); any failed check moves the call to the terminal state Rejected,
\* with no descriptor, after which no further check of that call runs. A
\* chain rejected at construction takes no step at all; a built one stays
\* open to its caller, whose later calls run their checks.
C7_StateOrder ==
  /\ [](\A c \in Chains : \A ch \in Calls(c) : chain[c].pc # "idle" =>
          /\ IsSubSeq(StatesOf(ch),
                      <<"Constructed", "RateChecked", "Authorized", "PrePerformed", "Completed", "Rejected">>)
          /\ Failed(ch.err) <=> ch.pc = "rejected"
          /\ ch.pc = "rejected" => ~ch.result.present)
  /\ [][\A c \in Chains :
          /\ \A slot \in Slots :
               /\ Of(chain'[c], slot).pc # Of(chain[c], slot).pc
                    => Of(chain'[c], slot).pc \in Successors(Of(chain[c], slot).pc)
               /\ Of(chain[c], slot).pc = "rejected" =>
                    chain'[c] = IdleChain \/ CallRests(c, slot) \/ PerformAgain(c, slot)
          /\ FailedInConstructor(chain[c]) => chain'[c] \in {chain[c], IdleChain}]_vars

\* On a rate-limited route, a chain with two calls of perform: one went
\* through every state, the rate check before the authorization; the other
\* failed the predicate its caller registered in between and is Rejected.
C7_Witness ==
  \E c \in Chains :
    /\ StatesOf(chain[c]) = <<"Constructed", "RateChecked", "Authorized", "PrePerformed", "Completed">>
    /\ StatesOf(Of(chain[c], "second")) = <<"Constructed", "RateChecked", "Authorized", "Rejected">>
    /\ chain[c].second.err = StatusError(403, "Predicate Not Succeeded")

\* ---- what a chain's endpoint declares for its filter and its document
Fields == {"filter", "body"}
DeclaredSchema(field) ==
  IF field = "filter"
  THEN IF kind = "Create" THEN NoSchema
       ELSE IF kind = "Read" THEN setCurrentUserSchema(endpoint.query.schemas)
       ELSE endpoint.query.schemas
  ELSE IF kind = "Update" THEN endpoint.body.schemas
       ELSE IF kind # "Create" THEN NoSchema
       ELSE IF endpoint.body.schemas.mode # "none" THEN endpoint.body.schemas
       ELSE IF endpoint.body.useDefaultSchema THEN EntitySchema
       ELSE NoSchema
\* the schema accepts the data: it is valid against the schema, or against
\* one branch of an anyOf (the sort and locale fields are not validated)
Accepts(schema, data) ==
  \/ schema.mode = "none"
  \/ \E i \in DOMAIN schema.branches : Validate(schema.branches[i], excludeFields(data)) = <<>>

\* C8: a descriptor is returned only if every authorization check passed,
\* the rate limit allowed the request, the predicate did not return false
\* and every declared schema accepted the data the descriptor is built from.
C8_NoPartialDescriptor ==
  \A c \in Chains : \A ch \in Calls(c) : ch.result.present /\ ch.ghost.removed = NoGhost.removed =>
    /\ FirstFailing(ch) = 0
    /\ ch.err = NoError
    /\ ch.ghost.checked # "fails"
    /\ \A f \in Fields : Accepts(DeclaredSchema(f), ch[f])

\* ---- denied keys
DeniedKeysOf(field) == IF field = "filter" THEN endpoint.query.deniedKeys ELSE endpoint.body.deniedKeys
\* the denied keys the endpoint declares for the field
DeniedKeys(field) == {DeniedKeysOf(field)[i] : i \in DOMAIN DeniedKeysOf(field)}
Scans == {"deniedKeys", "deniedKeysValue"}
ScanFailed(ch) == ch.pc = "rejected" /\ ch.log # <<>> /\ LastCheck(ch) \in Scans
\* prePerform has returned to perform
PrePerformReturned(ch) ==
  \/ ch.pc \in {"preperformed", "uploading", "completed"}
  \/ ch.pc = "rejected" /\ ch.err = UploadError
\* prePerform has gone past its scans
ScansDone(ch) ==
  \/ PrePerformReturned(ch)
  \/ ch.pc = "rejected" /\ ch.log # <<>> /\ LastCheck(ch) = "schema"

Present(ch, f) ==
  {k \in ((DOMAIN ch.req[f]) \ ch.ghost.removed[f]) \cap DeniedKeys(f) : Truthy(ch.req[f][k])}

\* C10: Read scans the declared denied keys in deletion-mode: no scan throws
\* and every denied key present is dropped. Create and Update scan in
\* rejection-mode: with a denied key present in the body prePerform does not
\* return, it throws.
C10_StatedModes ==
  \A c \in Chains : \A ch \in Calls(c) :
    /\ kind = "Read" /\ ch.pc \notin {"idle", "none"} =>
         /\ ~ScanFailed(ch)
         /\ ScansDone(ch) => Present(ch, "filter") \subseteq ch.ghost.stripped.filter
    /\ kind \in {"Create", "Update"} /\ Present(ch, "body") # {} =>
         ~PrePerformReturned(ch)

\* ------------------------------------------------------------------ direct calls
\* SpecFn: the public methods and the schema matcher called directly, one
\* call in a behaviour, over every input below; call keeps the arguments and
\* the result of the call.
MaxBranches == 3

\* objects whose values include a falsy one ("0")
ScanVals == {"bob", "admin", "0"}
ScanObjects == UNION {[ks -> ScanVals] : ks \in SUBSET Keys}
KeyLists == {<<>>, <<"role">>, <<"name", "role">>, <<"role", "sort">>, <<"sort", "name", "role">>}
ValueRecords == {<<>>, <<[key |-> "role", values |-> {"admin"}]>>,
                 <<[key |-> "role", values |-> {"admin", "bob"}], [key |-> "name", values |-> {"bob"}]>>}
\* what a principal may be granted on the fields of Item
FieldGrants == {{}, {<<"Delete", "Item", "Role", "">>},
                {<<"Delete", "Item", "Role", "">>, <<"Delete", "Item", "Name", "">>, <<"Delete", "Item", "Sort", "">>}}

\* data for the matcher, and the branches a declaration is built from
MatchVals == {"bob", "123"}
MatchObjects == UNION {[ks -> MatchVals] : ks \in SUBSET Keys}
NameAny == SubSchema({"name"}, {}, EmptyObj, Obj([role |-> "admin"]), Undefined)
SortString == SubSchema({}, {"sort"}, EmptyObj, Undefined, Obj([page |-> "123"]))
BranchPool == {RoleOwn, NameString, NameAny, SortString}
BranchLists == UNION {[1..n -> BranchPool] : n \in 1..MaxBranches}
Declarations == {Single(b) : b \in BranchPool} \cup {AnyOf(bs) : bs \in BranchLists}
FallbackDefaults == {Undefined, Obj([name |-> "bob"]), Arr(<<Obj([name |-> "bob"]), Obj([role |-> "bob"])>>)}
FallbackOptions == {Undefined, Obj([sort |-> "bob"]), Arr(<<Undefined, Obj([sort |-> "bob"])>>)}

\* base actions and grants for checkAction
BaseNames == {"", "Item", "Order"}
ActionGrants == SUBSET {<<k, b, "", "">> : k \in {"Read", "Create"}, b \in {"Item", "Order"}}

\* ---- objects with identity, for setCurrentUser
\* A value is a primitive (ref = 0) or a reference to the object at address
\* ref; a heap gives the object at each allocated address, an object being
\* its own properties' values.
MaxObjects == 3
Sentinel == "*current_user*"
Leaf(v) == [ref |-> 0, leaf |-> v]
Ref(a) == [ref |-> a, leaf |-> ""]
LeafVals == {Leaf(Sentinel), Leaf("bob")}
\* the objects at address a of a heap of n objects: owner, maybe name, and,
\* but for the last one, a nested object in child
ObjectsAt(a, n) ==
  {[k \in ks \cup (IF a < n THEN {"child"} ELSE {}) |->
      IF k = "child" THEN Ref(a + 1) ELSE IF k = "owner" THEN o ELSE m] :
     ks \in {{"owner"}, {"owner", "name"}}, o \in LeafVals, m \in LeafVals}
Heaps == UNION {{h \in [1..n -> UNION {ObjectsAt(a, n) : a \in 1..n}] :
                   \A a \in 1..n : h[a] \in ObjectsAt(a, n)} : n \in 1..MaxObjects}
\* the addresses of the objects a value reaches
RECURSIVE Reach(_, _)
Reach(heap, v) ==
  IF v.ref = 0 THEN {}
  ELSE {v.ref} \cup UNION {Reach(heap, heap[v.ref][k]) : k \in DOMAIN heap[v.ref]}

\* (a clone that copies the outermost object only and keeps what it refers to)
cloneDeepWith_Shallow(heap, data, stringify) ==
  LET n == Cardinality(DOMAIN heap)
      customizer(v) == IF v.ref = 0 /\ v.leaf = Sentinel THEN Leaf(UserId(stringify)) ELSE v
  IN IF data.ref = 0 THEN [heap |-> heap, data |-> customizer(data)]
     ELSE [heap |-> [a \in (DOMAIN heap) \cup {data.ref + n} |->
                       IF a \in DOMAIN heap THEN heap[a]
                       ELSE [k \in DOMAIN heap[data.ref] |-> customizer(heap[data.ref][k])]],
           data |-> Ref(data.ref + n)]

\* BaseChain.setCurrentUser(data, undefined, stringify), that is
\* cloneDeepWith(data, customizer): the heap after the call and the value
\* returned. A value the customizer answers for is replaced by its answer;
\* every object reached is copied to a new address (the address n further).
cloneDeepWith(heap, data, stringify) ==
  LET n == Cardinality(DOMAIN heap)
      reached == Reach(heap, data)
      customizer(v) ==
        IF v.ref = 0
        THEN IF v.leaf = Sentinel THEN Leaf(UserId(stringify)) ELSE v
        ELSE Ref(v.ref + n)
  IN [heap |-> [a \in (DOMAIN heap) \cup {r + n : r \in reached} |->
                  IF a \in DOMAIN heap THEN heap[a]
                  ELSE [k \in DOMAIN heap[a - n] |-> customizer(heap[a - n][k])]],
      data |-> customizer(data)]

Frame == UNCHANGED <<now, cache, endpoint, granted, kind, chain, admitted, denied>>

\* chain.checkIfKeysExist(keys, undefined, shouldDelete) on a chain of base action Item
CallCheckIfKeysExist(obj, keys, shouldDelete, g) ==
  /\ call' = [fn |-> "_checkIfKeysExist",
              args |-> [obj |-> obj, keys |-> keys, shouldDelete |-> shouldDelete, granted |-> g],
              out |-> _checkIfKeysExist(obj, keys, "", shouldDelete, "Item", "Delete", g)]
  /\ Frame

\* chain.checkIfKeysValueExist(record, undefined, shouldDelete)
CallCheckIfKeysValueExist(obj, record, shouldDelete, g) ==
  /\ call' = [fn |-> "_checkIfKeysValueExist",
              args |-> [obj |-> obj, record |-> record, shouldDelete |-> shouldDelete, granted |-> g],
              out |-> _checkIfKeysValueExist(obj, record, "", shouldDelete, "Item", "Delete", g)]
  /\ Frame

\* validateDataSchema(data, schema, defaultData, defaultOpt)
CallValidateDataSchema(data, schema, defaultData, defaultOpt) ==
  /\ call' = [fn |-> "validateDataSchema",
              args |-> [data |-> data, schema |-> schema, defaultData |-> defaultData, defaultOpt |-> defaultOpt],
              out |-> validateDataSchema(data, schema, defaultData, defaultOpt)]
  /\ Frame

\* chain.checkAction(baseAction) on a chain whose this.baseAction is thisBase
CallCheckAction(argBase, thisBase, epBase, prefix, g) ==
  /\ call' = [fn |-> "checkAction",
              args |-> [argBase |-> argBase, thisBase |-> thisBase, epBase |-> epBase,
                        prefix |-> prefix, granted |-> g],
              out |-> checkAction(argBase, thisBase, epBase, prefix, g)]
  /\ Frame

CallSetCurrentUser(heap, data, stringify) ==
  /\ call' = [fn |-> "setCurrentUser",
              args |-> [heap |-> heap, data |-> data, stringify |-> stringify],
              out |-> cloneDeepWith(heap, data, stringify)]
  /\ Frame

InitFn ==
  /\ now = 1
  /\ cache = EmptyCache
  /\ endpoint = Endpoint(AuthUndefined, NoRateLimit, DataNone)
  /\ granted = {}
  /\ kind = "Read"
  /\ chain = [c \in Chains |-> IdleChain]
  /\ admitted = 0
  /\ denied = FALSE
  /\ call = NoCall

NextFn ==
  \/ /\ call = NoCall
     /\ \E obj \in ScanObjects, keys \in KeyLists, shouldDelete \in BOOLEAN, g \in FieldGrants :
          CallCheckIfKeysExist(obj, keys, shouldDelete, g)
  \/ /\ call = NoCall
     /\ \E obj \in ScanObjects, record \in ValueRecords, shouldDelete \in BOOLEAN, g \in FieldGrants :
          CallCheckIfKeysValueExist(obj, record, shouldDelete, g)
  \/ /\ call = NoCall
     /\ \E data \in MatchObjects, schema \in Declarations,
          defaultData \in FallbackDefaults, defaultOpt \in FallbackOptions :
          CallValidateDataSchema(data, schema, defaultData, defaultOpt)
  \/ /\ call = NoCall
     /\ \E argBase \in BaseNames, thisBase \in BaseNames, epBase \in BaseNames,
          prefix \in Kinds, g \in ActionGrants :
          CallCheckAction(argBase, thisBase, epBase, prefix, g)
  \/ /\ call = NoCall
     /\ \E heap \in Heaps, stringify \in BOOLEAN :
          \E data \in LeafVals \cup {Ref(a) : a \in DOMAIN heap} :
            CallSetCurrentUser(heap, data, stringify)

SpecFn == InitFn /\ [][NextFn]_vars

\* ------------------------------------------------- claims on the key scans
Listed(keys) == {keys[i] : i \in DOMAIN keys}
KeyScan(shouldDelete) == call.fn = "_checkIfKeysExist" /\ call.args.shouldDelete = shouldDelete
OthersKept(out, obj, keys) ==
  \A k \in DOMAIN obj \ Listed(keys) : Has(out, k) /\ out[k] = obj[k]

\* C11: a deletion-mode scan by _checkIfKeysExist never throws, leaves none of
\* the listed keys present in the object whatever value the key held (falsy
\* values included), and leaves every other key as it was.
C11_DeletionStrips ==
  KeyScan(TRUE) =>
    /\ call.out.err = NoError
    /\ DOMAIN call.out.obj \cap Listed(call.args.keys) = {}
    /\ OthersKept(call.out.obj, call.args.obj, call.args.keys)

\* C12: a rejection-mode scan by _checkIfKeysExist of an object that contains
\* a listed key throws an error, for every principal, and leaves the object
\* as it was.
C12_RejectionThrows ==
  KeyScan(FALSE) /\ DOMAIN call.args.obj \cap Listed(call.args.keys) # {} =>
    /\ Failed(call.out.err)
    /\ call.out.obj = call.args.obj

\* -------------------------------------------- claims on prePerform and perform
DeletionMode(k) == k \in {"Read", "Create", "Update"}
\* the chain and endpoint as a second run of prePerform leaves them: the run
\* starts afresh, with nothing of the first run's outcome
SecondRun(c) ==
  LET scans(s) == IF Thrown(s) THEN s ELSE prePerform(s, kind, granted)
  IN scans(BasePrePerform([ch |-> Entered(chain[c], "first"), ep |-> endpoint]))
\* between the runs the caller has left the chain alone: no predicate
\* registered that is to give another verdict, no key removed by a check of
\* its own
LeftAlone(ch) ==
  /\ Verdict(ch.callback) = ch.ghost.checked
  /\ ch.ghost.removed = NoGhost.removed

C14_DescriptorKept == [][endpoint' = endpoint]_vars

\* ------------------------------------------------- claims on schema matching
AnyOfCall == call.fn = "validateDataSchema" /\ call.args.schema.mode = "anyOf"
Branches == call.args.schema.branches
\* what the validator of branch i is given, and whether it accepts it
Input == excludeFields(call.args.data)
Accepting == {i \in DOMAIN Branches : Validate(Branches[i], Input) = <<>>}
Lowest(S) == CHOOSE i \in S : \A j \in S : i <= j
\* the position, from 0, of the winning branch; -1 when there is none
Winner == findIndex(Branches, call.args.data, 1, NoErrors).index
Element(d, i) == IF i + 1 \in DOMAIN d.items THEN d.items[i + 1] ELSE Undefined
Chosen(own, fallback, i) ==
  IF IsDefined(own) THEN own
  ELSE IF fallback.tag = "seq" THEN Element(fallback, i)
  ELSE fallback

\* C15: in any-of mode the result is valid iff some branch accepts the data
\* without its sort and locale fields, and the winner is then the accepting
\* branch declared first: its default and options are the ones returned.
C15_FirstAccepting ==
  AnyOfCall =>
    /\ call.out.isValid <=> Accepting # {}
    /\ Accepting # {} =>
         /\ Winner = Lowest(Accepting) - 1
         /\ call.out.defaultValue =
              Chosen(Branches[Lowest(Accepting)].default, call.args.defaultData, Lowest(Accepting) - 1)
         /\ call.out.defaultOption =
              Chosen(Branches[Lowest(Accepting)].options, call.args.defaultOpt, Lowest(Accepting) - 1)

\* several branches accept, the first declared one does not, and the winner
\* accepts only because the sort field is kept from its validator
C15_Witness ==
  /\ AnyOfCall
  /\ Cardinality(Accepting) >= 2
  /\ Lowest(Accepting) > 1
  /\ Validate(Branches[Lowest(Accepting)], call.args.data) # <<>>
  /\ call.out.isValid

\* C16: when branch i wins, the returned default is the branch's own default
\* if it declares one, else element i of the fallback default when that is a
\* sequence, else the fallback default as it is; the returned options follow
\* the same rule on their own, from the branch's options and the fallback options.
C16_DefaultOfWinner ==
  AnyOfCall /\ Winner >= 0 =>
    /\ call.out.defaultValue =
         (IF IsDefined(Branches[Winner + 1].default) THEN Branches[Winner + 1].default
          ELSE IF call.args.defaultData.tag = "seq" THEN Element(call.args.defaultData, Winner)
          ELSE call.args.defaultData)
    /\ call.out.defaultOption =
         (IF IsDefined(Branches[Winner + 1].options) THEN Branches[Winner + 1].options
          ELSE IF call.args.defaultOpt.tag = "seq" THEN Element(call.args.defaultOpt, Winner)
          ELSE call.args.defaultOpt)

\* the winner, not declared first, has its own default and no options: the
\* default is its own while the options are its element of the fallback sequence
C16_Witness ==
  /\ AnyOfCall /\ Winner >= 1
  /\ IsDefined(Branches[Winner + 1].default) /\ ~IsDefined(Branches[Winner + 1].options)
  /\ call.args.defaultData.tag = "seq" /\ call.args.defaultOpt.tag = "seq"
  /\ call.out.defaultValue = Branches[Winner + 1].default
  /\ call.out.defaultValue # Element(call.args.defaultData, Winner)
  /\ call.out.defaultOption = Element(call.args.defaultOpt, Winner)
  /\ IsDefined(call.out.defaultOption)

\* C17: in any-of mode, when no branch accepts the data, the result is not
\* valid and its errors are those of the last declared branch, none of an
\* earlier branch.
C17_LastErrors ==
  AnyOfCall /\ Accepting = {} =>
    /\ ~call.out.isValid
    /\ call.out.errors = Errors(Validate(Branches[Len(Branches)], Input))

\* no branch accepts and the first and the last branch fail differently
C17_Witness ==
  /\ AnyOfCall /\ Accepting = {} /\ Len(Branches) >= 2
  /\ Validate(Branches[1], Input) # Validate(Branches[Len(Branches)], Input)
  /\ ~call.out.isValid
  /\ call.out.errors = Errors(Validate(Branches[Len(Branches)], Input))

\* ------------------------------------------------- claims on authorization
\* the base action a call of checkAction resolves: the argument, else the
\* chain's own, else the endpoint's; "" when none is set
Resolved ==
  IF call.args.argBase # "" THEN call.args.argBase
  ELSE IF call.args.thisBase # "" THEN call.args.thisBase
  ELSE call.args.epBase
ActionCall == call.fn = "checkAction" /\ Resolved # ""

\* C18: with a resolvable base action A, checkAction allows iff the action
\* composed of the chain's prefix and A is in the principal's granted set, and
\* otherwise fails with 403 Permission Denied; it never allows when the
\* granted set is empty.
C18_AllowsIffGranted ==
  ActionCall =>
    /\ call.out.err = NoError <=> constructAction(Resolved, call.args.prefix, "", "") \in call.args.granted
    /\ call.out.err \in {NoError, StatusError(403, "Permission Denied")}
    /\ call.args.granted = {} => Failed(call.out.err)

\* allowed on the endpoint's base action, by a principal granted other actions too
C18_Witness ==
  /\ ActionCall /\ call.args.argBase = "" /\ call.args.thisBase = "" /\ call.args.prefix = "Create"
  /\ Cardinality(call.args.granted) >= 2
  /\ call.out.err = NoError

\* a request made by a visitor on an endpoint that does not permit visitors
UnwelcomeVisitor(ch) == ch.pc # "idle" /\ ch.utype = Visitor /\ ~endpoint.canVisitorVisit
OnlyVisitor401(ch) ==
  /\ \A u \in UserTypes, cv \in BOOLEAN :
       visitorVisit(u, cv) = IF ~cv /\ u = Visitor THEN StatusError(401, "Unauthorized") ELSE NoError
  /\ ch.err.status = 401 =>
       /\ LastCheck(ch) = "visitor"
       /\ ch.utype = Visitor /\ ~endpoint.canVisitorVisit
  /\ ch.thrown.status = 401 => ch.utype = Visitor /\ ch.thrown = visitorVisit(ch.utype, FALSE)

\* C19 as stated: visitorVisit fails, with 401 Unauthorized, iff canVisit is
\* false and the principal is a visitor; no other check produces a 401; and a
\* visitor on an endpoint that does not permit visitors is rejected at
\* construction with 401.
C19_StatedVisitor401 ==
  \A c \in Chains :
    /\ \A ch \in Calls(c) : OnlyVisitor401(ch)
    /\ UnwelcomeVisitor(chain[c]) =>
         FailedInConstructor(chain[c]) /\ chain[c].err = StatusError(401, "Unauthorized")

\* C19: visitorVisit fails, with 401 Unauthorized, iff canVisit is false and
\* the principal is a visitor; no other check produces a 401; and a visitor on
\* an endpoint that does not permit visitors is rejected at construction,
\* never with 403: with 401 by the visitor check, unless the rate limit,
\* which is checked before it, has rejected the request with 429.
C19_Visitor401 ==
  /\ [](\A c \in Chains :
          /\ \A ch \in Calls(c) : OnlyVisitor401(ch)
          /\ UnwelcomeVisitor(chain[c]) =>
               /\ FailedInConstructor(chain[c])
               /\ \/ chain[c].err = StatusError(401, "Unauthorized") /\ LastCheck(chain[c]) = "visitor"
                  \/ chain[c].err.status = 429 /\ LastCheck(chain[c]) = "rateLimit")
  /\ [][\A c \in Chains :
          chain'[c].thrown.status = 401 /\ chain'[c].thrown # chain[c].thrown => VisitorVisit(c, FALSE)]_vars

\* a visitor rejected with 401 where the action and user-type checks, had
\* they run, would both have answered 403
C19_Witness ==
  \E c \in Chains :
    /\ UnwelcomeVisitor(chain[c])
    /\ chain[c].err = StatusError(401, "Unauthorized")
    /\ endpoint.shouldCheckAction /\ Failed(ExpectedError(chain[c], "action"))
    /\ endpoint.allowedUsers # {} /\ Failed(ExpectedError(chain[c], "userType"))

\* The object the caller handed to the constructor, as the chain has left
\* it. The chain keeps that very object in this.filter / this.doc /
\* this.update (a ReadChain until prePerform puts the parsed filter in its
\* place), so a key deleted there, by a scan of prePerform or by a public
\* check the caller calls in deletion-mode, is gone from it.
CallerObject(ch, f) == ch.ghost.caller[f]

\* C20: through prePerform and perform, whether perform returns or throws,
\* the filter, document or update object the caller passed holds the keys and
\* values it held before: no step of a call of perform changes it.
C20_CallerObjectKept ==
  [][\A c \in Chains : \A f \in {"filter", "body"} :
       PerformStep(c) => CallerObject(chain'[c], f) = CallerObject(chain[c], f)]_vars

\* ------------------------------------------------- claims on setCurrentUser
\* what a value holds, through every nesting level
RECURSIVE Content(_, _)
Content(heap, v) ==
  IF v.ref = 0 THEN [leaf |-> v.leaf, fields |-> EmptyObj]
  ELSE [leaf |-> "", fields |-> [k \in DOMAIN heap[v.ref] |-> Content(heap, heap[v.ref][k])]]
\* that content with the principal's identity in place of every sentinel
RECURSIVE Substituted(_, _)
Substituted(c, stringify) ==
  [leaf |-> IF c.leaf = Sentinel THEN UserId(stringify) ELSE c.leaf,
   fields |-> [k \in DOMAIN c.fields |-> Substituted(c.fields[k], stringify)]]
RECURSIVE Depth(_, _)
Depth(heap, v) == IF v.ref = 0 THEN 0 ELSE 1 + (IF "child" \in DOMAIN heap[v.ref] THEN Depth(heap, heap[v.ref].child) ELSE 0)
IdentityCall == call.fn = "setCurrentUser"

\* C21: setCurrentUser returns a copy of its input in which every value equal
\* to the sentinel, at any nesting depth, is the principal's identity (as a
\* string when the flag is set) and every other value is the same; the input
\* is unchanged after the call and the result reaches none of its objects.
C21_DeepCopy ==
  IdentityCall =>
    /\ Content(call.out.heap, call.out.data)
         = Substituted(Content(call.args.heap, call.args.data), call.args.stringify)
    /\ \A a \in DOMAIN call.args.heap : call.out.heap[a] = call.args.heap[a]
    /\ Reach(call.out.heap, call.out.data) \cap Reach(call.args.heap, call.args.data) = {}

\* an input nested three deep, with the sentinel at the innermost level and
\* another value next to it, copied with the identity as a string
C21_Witness ==
  /\ IdentityCall /\ call.args.stringify
  /\ Depth(call.args.heap, call.args.data) >= 3
  /\ \E a \in DOMAIN call.args.heap :
       /\ "child" \notin DOMAIN call.args.heap[a]
       /\ call.args.heap[a].owner = Leaf(Sentinel)
       /\ "name" \in DOMAIN call.args.heap[a] /\ call.args.heap[a].name = Leaf("bob")
  /\ Content(call.out.heap, call.out.data) # Content(call.args.heap, call.args.data)
  /\ Cardinality(Reach(call.out.heap, call.out.data)) = 3

\* ------------------------------------------------- claims on the penalty entry
\* C22: a call of checkRateLimit that finds no primary entry while a penalty
\* entry of an earlier exhaustion exists deletes the penalty entry, creates
\* the primary entry with value Max-1 for one window and allows the request;
\* and a penalty entry created where there was none starts at escalation 1.
C22_FreshWindowClears ==
  [][\A c \in Chains : RateCheckStep(c) =>
        /\ ~PrimaryLive /\ PenaltyLive =>
             /\ RateAllowed(c)
             /\ cache'["retryKey"] = Absent("retryKey")
             /\ cache'["key"] = [live |-> TRUE, val |-> Max - 1, t |-> now + Window]
        /\ ~PenaltyLive /\ cache'["retryKey"].live =>
             cache'["retryKey"].val = [retry |-> 1, count |-> 2 * Max - 1]]_vars

\* a request was let through on a fresh window that began with a penalty
\* entry left over, and the next exhaustion has started at escalation 1 again
C22_Witness ==
  \E c, d \in Chains :
    /\ chain[c].pc # "idle" /\ chain[c].err = NoError /\ chain[c].ghost.cleared
    /\ chain[d].err = TooManyRequests
    /\ PrimaryLive /\ Primary.val = 0
    /\ PenaltyLive /\ Penalty.val.retry = 1 /\ Penalty.t = now + Window

\* C23: whenever the penalty entry and the primary entry both exist, the
\* primary counter is 0; a penalty entry comes into existence only in a call
\* of checkRateLimit that found the primary counter at 0; and every call
\* denied with 429 writes the penalty entry, for one window from then.
C23_PenaltyMeansExhausted ==
  /\ [](PenaltyLive /\ PrimaryLive => Primary.val = 0)
  /\ [][/\ ~PenaltyLive /\ cache'["retryKey"].live =>
             \E c \in Chains : RateCheckStep(c) /\ RateDenied(c) /\ PrimaryLive /\ Primary.val = 0
        /\ \A c \in Chains : RateCheckStep(c) /\ RateDenied(c) =>
             /\ PrimaryLive /\ Primary.val = 0
             /\ cache'["retryKey"].live /\ cache'["retryKey"].t = now + Window
             /\ cache'["retryKey"] # Penalty]_vars

\* the counter of a window of two requests is used up and the penalty entry,
\* created by a denial, has since been escalated once by a later denial
C23_Witness ==
  /\ Max = 2
  /\ PrimaryLive /\ Primary.val = 0
  /\ PenaltyLive /\ Penalty.val = [retry |-> 2, count |-> 3]
  /\ \E c \in Chains : chain[c].err = TooManyRequests /\ chain[c].pc = "rejected"

\* ------------------------------------------------- claims on the validation result
\* C24: validateDataSchema never returns errors together with a valid
\* result: in single-schema mode and in any-of mode, earlier branches having
\* rejected the data or not, a valid result has no errors.
C24_NoErrorsWhenValid ==
  call.fn = "validateDataSchema" /\ call.out.isValid => call.out.errors = NoErrors

\* the schema the endpoint declares for the field, if any, accepts the object
Conforms(schema, obj) == schema.mode # "none" => CompileValidate(schema, obj) = <<>>

\* C25: an Update request gets a descriptor only if the update body is
\* accepted by the declared body schema and the filter by the declared query
\* schema, an empty body or filter included; a request whose body or filter
\* is not accepted, and that no earlier check stopped, is rejected with 403.
C25_UpdateValidated ==
  \A c \in Chains : kind = "Update" /\ chain[c].ghost.removed = NoGhost.removed =>
    /\ chain[c].result.present =>
         /\ Conforms(endpoint.body.schemas, chain[c].body)
         /\ Conforms(endpoint.query.schemas, chain[c].filter)
    /\ /\ chain[c].pc \in {"preperformed", "completed", "rejected"}
       /\ ~FailedInConstructor(chain[c]) /\ chain[c].ghost.checked # "fails"
       /\ ~(Conforms(endpoint.body.schemas, chain[c].body) /\ Conforms(endpoint.query.schemas, chain[c].filter))
       => chain[c].err.status = 403

====
